---- MODULE Spec2Model ----
(***************************************************************************)
(* concilia: the reconciliation matcher of app.py and the OFX transaction  *)
(* parser of ofx_utils.py, as state machines over small input tables and   *)
(* small OFX texts.                                                        *)
(*                                                                         *)
(* Text is a sequence of one-character strings.  A decimal number is the   *)
(* exact decimal [m |-> mantissa, e |-> number of decimals] with no        *)
(* trailing zero decimal; a missing number is NaN.  A timestamp is a       *)
(* record of its calendar fields; a missing one is NaT.                    *)
(***************************************************************************)
EXTENDS Integers, Sequences, FiniteSets, TLC

VARIABLES
    df_clean,      \* the ledger table given to _match_transactions
    df_ofx,        \* the bank table given to _match_transactions
    m_pc,          \* "input" before _match_transactions has run, "matched" after
    matches,       \* result: rows of the merge found on both sides
    odo_only,      \* result: rows found on the ledger side only
    ofx_only,      \* result: rows found on the bank side only
    ofx_text,      \* the decoded OFX text given to the parser
    ofx_given,     \* what the OFX text was written from (kept beside the text)
    ofx_pc,        \* "input", "blocks" (after _parse_stmttrn_blocks) or "read"
    records,       \* result of _parse_stmttrn_blocks
    ofx_frame,     \* result of read_ofx_transactions: the rows of the table
    date_given,    \* what the value given to _parse_ofx_date was written from
    date_value,    \* the value given to _parse_ofx_date: [present, text]
    date_pc,       \* "input" before _parse_ofx_date has run, "parsed" after
    date_result,   \* what _parse_ofx_date returned
    kind_given,    \* what the file given to detect_kind was written from
    kind_name,     \* the file name given to detect_kind
    kind_text,     \* the decoded text given to detect_kind
    kind_pc,       \* "input" before detect_kind has run, "done" after
    kind_result,   \* what detect_kind returned
    canon_columns, \* the column labels of the table given to canonicalize_columns
    canon_pc,      \* "input", "renamed" after one call, "again" after a second one
    canon_result,  \* the column labels after canonicalize_columns
    canon_again,   \* the column labels after canonicalize_columns on its own result
    money_given,   \* what the cells of the money column were written from
    money_series,  \* the column given to the converters: [dtype, cells]
    float_pc,      \* _to_brazil_float: "input", "parsed", "again" (on the text of its result)
    float_result,  \* what _to_brazil_float returned
    float_again,   \* what _to_brazil_float returned for the text of float_result
    brl_pc,        \* _convert_brl: "input", "parsed", "again" (on the text of its result)
    brl_result,    \* what _convert_brl returned
    brl_again,     \* what _convert_brl returned for the text of brl_result
    clean_given,   \* what the rows of the raw ledger table were written from
    clean_raw,     \* the raw table given to clean_odontotech_df: [columns, rows]
    clean_pc,      \* "input" before clean_odontotech_df has run, "cleaned" after
    clean_df,      \* the table clean_odontotech_df returned
    clean_stats,   \* the stats clean_odontotech_df returned
    fr_given,      \* what the lines of the boleto report were written from
    fr_text,       \* the decoded text given to read_francesinha_from_text
    fr_pc,         \* "input" before read_francesinha_from_text has run, "read" after
    fr_rows,       \* the rows collected by the loop over the lines
    fr_frame,      \* the table read_francesinha_from_text returned
    cr_given,      \* what the lines of the accounts report were written from: [parser, lines]
    cr_text,       \* the decoded text given to the accounts parser
    cr_pc,         \* "input" before the accounts parser has run, "read" after
    cr_lines,      \* output_lines: the lines the parser kept
    cr_frame,      \* the table the accounts parser returned
    grp_df,        \* the table given to group_totals: [columns, rows]
    grp_by,        \* the by-columns given to group_totals
    grp_pc,        \* "input" before group_totals has run, "done" after
    grp_result,    \* what group_totals returned: a table, or the error it raised
    ld_name,       \* the file name of the upload
    ld_data,       \* the buffer of the upload: the text its bytes encode in UTF-8
    raw_pc,        \* read_odontotech_csv: "input" before it has run, "done" after
    raw_result,    \* what read_odontotech_csv returned: [df, stats], or the error it raised
    ld_pc,         \* load_dataset: "input" before it has run, "done" after
    ld_result      \* what load_dataset returned: [name, kind, df], or the error it raised

vars == <<df_clean, df_ofx, m_pc, matches, odo_only, ofx_only,
          ofx_text, ofx_given, ofx_pc, records, ofx_frame,
          date_given, date_value, date_pc, date_result,
          kind_given, kind_name, kind_text, kind_pc, kind_result,
          canon_columns, canon_pc, canon_result, canon_again,
          money_given, money_series, float_pc, float_result, float_again, brl_pc, brl_result, brl_again,
          clean_given, clean_raw, clean_pc, clean_df, clean_stats,
          fr_given, fr_text, fr_pc, fr_rows, fr_frame,
          cr_given, cr_text, cr_pc, cr_lines, cr_frame,
          grp_df, grp_by, grp_pc, grp_result,
          ld_name, ld_data, raw_pc, raw_result, ld_pc, ld_result>>

match_vars == <<df_clean, df_ofx, m_pc, matches, odo_only, ofx_only>>

ofx_vars == <<ofx_text, ofx_given, ofx_pc, records, ofx_frame>>

date_vars == <<date_given, date_value, date_pc, date_result>>

kind_vars == <<kind_given, kind_name, kind_text, kind_pc, kind_result>>

canon_vars == <<canon_columns, canon_pc, canon_result, canon_again>>

money_vars == <<money_given, money_series, float_pc, float_result, float_again, brl_pc, brl_result, brl_again>>

clean_vars == <<clean_given, clean_raw, clean_pc, clean_df, clean_stats>>

fr_vars == <<fr_given, fr_text, fr_pc, fr_rows, fr_frame>>

cr_vars == <<cr_given, cr_text, cr_pc, cr_lines, cr_frame>>

grp_vars == <<grp_df, grp_by, grp_pc, grp_result>>

load_vars == <<ld_name, ld_data, raw_pc, raw_result, ld_pc, ld_result>>

\* For each component, the variables of the other components.
not_match_vars == <<ofx_vars, date_vars, kind_vars, canon_vars, money_vars, clean_vars, fr_vars, cr_vars, grp_vars, load_vars>>

not_ofx_vars == <<match_vars, date_vars, kind_vars, canon_vars, money_vars, clean_vars, fr_vars, cr_vars, grp_vars, load_vars>>

not_date_vars == <<match_vars, ofx_vars, kind_vars, canon_vars, money_vars, clean_vars, fr_vars, cr_vars, grp_vars, load_vars>>

not_kind_vars == <<match_vars, ofx_vars, date_vars, canon_vars, money_vars, clean_vars, fr_vars, cr_vars, grp_vars, load_vars>>

not_canon_vars == <<match_vars, ofx_vars, date_vars, kind_vars, money_vars, clean_vars, fr_vars, cr_vars, grp_vars, load_vars>>

not_money_vars == <<match_vars, ofx_vars, date_vars, kind_vars, canon_vars, clean_vars, fr_vars, cr_vars, grp_vars, load_vars>>

not_clean_vars == <<match_vars, ofx_vars, date_vars, kind_vars, canon_vars, money_vars, fr_vars, cr_vars, grp_vars, load_vars>>

not_fr_vars == <<match_vars, ofx_vars, date_vars, kind_vars, canon_vars, money_vars, clean_vars, cr_vars, grp_vars, load_vars>>

not_cr_vars == <<match_vars, ofx_vars, date_vars, kind_vars, canon_vars, money_vars, clean_vars, fr_vars, grp_vars, load_vars>>

not_grp_vars == <<match_vars, ofx_vars, date_vars, kind_vars, canon_vars, money_vars, clean_vars, fr_vars, cr_vars, load_vars>>

not_load_vars == <<match_vars, ofx_vars, date_vars, kind_vars, canon_vars, money_vars, clean_vars, fr_vars, cr_vars, grp_vars>>

(***************************************************************************)
(* Bounds of the model.                                                    *)
(***************************************************************************)
MaxLedgerRows == 3

MaxBankRows == 2

(***************************************************************************)
(* Values.                                                                 *)
(***************************************************************************)
NaT == [k |-> "NaT"]

NaN == [k |-> "NaN"]

None == [k |-> "None"]

\* A cell holding text that is neither a date nor a number.
Unparsable == [k |-> "text"]

RECURSIVE Pow10(_)
Pow10(n) == IF n = 0 THEN 1 ELSE 10 * Pow10(n - 1)

RECURSIVE Norm(_, _)
\* The decimal m / 10^e without trailing zero decimals.
Norm(m, e) ==
    IF e > 0 /\ m % 10 = 0 THEN Norm(m \div 10, e - 1)
    ELSE [k |-> "num", m |-> m, e |-> e]

IsNum(v) == v.k = "num"

IsTs(v) == v.k = "ts"

Max(a, b) == IF a >= b THEN a ELSE b

\* a - b on exact decimals (pandas float subtraction of two columns).
Sub(a, b) ==
    LET e == Max(a.e, b.e)
    IN  Norm(a.m * Pow10(e - a.e) - b.m * Pow10(e - b.e), e)

Zero == Norm(0, 0)

\* Series.round(2): nearest multiple of 0.01, a tie going to the even one.
Round2(v) ==
    IF ~IsNum(v) THEN NaN
    ELSE IF v.e <= 2 THEN v
    ELSE LET scale == Pow10(v.e - 2)
             q == v.m \div scale
             r == v.m % scale
             up == \/ 2 * r > scale
                   \/ 2 * r = scale /\ q % 2 = 1
         IN  Norm(IF up THEN q + 1 ELSE q, 2)

\* pd.to_numeric(..., errors="coerce") of one cell.
ToNumeric(v) == IF IsNum(v) THEN v ELSE NaN

\* pd.to_datetime(..., errors="coerce") of one cell.
ToDatetime(v) == IF IsTs(v) THEN v ELSE NaT

\* Series.dt.date of one cell: the calendar date, the time of day dropped.
DtDate(t) == IF IsTs(t) THEN [k |-> "date", y |-> t.y, mo |-> t.mo, d |-> t.d] ELSE NaT

IsNull(v) == v.k \in {"NaT", "NaN", "None"}

Ts(y, mo, d, h, mi, s) == [k |-> "ts", y |-> y, mo |-> mo, d |-> d, h |-> h, mi |-> mi, s |-> s]

(***************************************************************************)
(* _match_transactions (app.py).  A table is its set of column names and   *)
(* its sequence of rows; a row of a result carries the position (pos) its  *)
(* source row had in the input table, standing for the row's other columns.*)
(***************************************************************************)
Empty(df) == Len(df.rows) = 0

\* odo with match_date and match_value added (app.py 603-604), rows numbered.
OdoKeyed(df) ==
    [i \in 1..Len(df.rows) |->
        [pos |-> i, Valor |-> df.rows[i].Valor,
         match_date |-> DtDate(ToDatetime(df.rows[i].Pagto)),
         match_value |-> Round2(ToNumeric(df.rows[i].Valor))]]

\* ofx with match_date and match_value added (app.py 605-606), rows numbered.
OfxKeyed(df) ==
    [i \in 1..Len(df.rows) |->
        [pos |-> i, Valor |-> df.rows[i].Valor,
         match_date |-> DtDate(ToDatetime(df.rows[i].Data)),
         match_value |-> Round2(ToNumeric(df.rows[i].Valor))]]

\* dropna(subset=["match_date", "match_value"]): the rows kept, in order.
DropNa(keyed) ==
    SelectSeq(keyed, LAMBDA r : ~IsNull(r.match_date) /\ ~IsNull(r.match_value))

\* The columns groupby(...).cumcount() groups on.
GroupKey(r) == <<r.match_date, r.match_value>>

\* cumcount() over groups of the date alone.
CumCount_ByDate(rows) ==
    [i \in 1..Len(rows) |->
        [pos |-> rows[i].pos, Valor |-> rows[i].Valor,
         match_date |-> rows[i].match_date, match_value |-> rows[i].match_value,
         match_idx |-> Cardinality({j \in 1..(i - 1) : rows[j].match_date = rows[i].match_date})]]

\* cumcount() numbering each group from its last row backwards.
CumCount_Reversed(rows) ==
    [i \in 1..Len(rows) |->
        [pos |-> rows[i].pos, Valor |-> rows[i].Valor,
         match_date |-> rows[i].match_date, match_value |-> rows[i].match_value,
         match_idx |-> Cardinality({j \in (i + 1)..Len(rows) : GroupKey(rows[j]) = GroupKey(rows[i])})]]

\* groupby(["match_date", "match_value"]).cumcount(): each row gets the number
\* of earlier rows of its group.
CumCount(rows) ==
    [i \in 1..Len(rows) |->
        [pos |-> rows[i].pos, Valor |-> rows[i].Valor,
         match_date |-> rows[i].match_date, match_value |-> rows[i].match_value,
         match_idx |-> Cardinality({j \in 1..(i - 1) : GroupKey(rows[j]) = GroupKey(rows[i])})]]

\* A join on the date and the amount alone, without the occurrence index.
MergeKey_NoIdx(r) == <<r.match_date, r.match_value>>

\* A join on the date and the occurrence index alone, without the amount.
MergeKey_NoValue(r) == <<r.match_date, r.match_idx>>

\* The join key of merge(left_on=..., right_on=...).
MergeKey(r) == <<r.match_date, r.match_value, r.match_idx>>

Range(s) == {s[i] : i \in 1..Len(s)}

\* merge(how="outer", indicator=True): one row per pair of rows with equal keys,
\* and one per row of either side whose key the other side lacks.
Merged(odo, ofx) ==
    {[_merge |-> "both", odo |-> l, ofx |-> r] :
        <<l, r>> \in {p \in Range(odo) \X Range(ofx) : MergeKey(p[1]) = MergeKey(p[2])}}
    \cup {[_merge |-> "left_only", odo |-> l] :
        l \in {x \in Range(odo) : \A r \in Range(ofx) : MergeKey(r) # MergeKey(x)}}
    \cup {[_merge |-> "right_only", ofx |-> r] :
        r \in {x \in Range(ofx) : \A l \in Range(odo) : MergeKey(l) # MergeKey(x)}}

\* The difference taken over the rounded match_value of the two sides.
Diferenca_Rounded(l, r) == Sub(l.match_value, r.match_value)

\* matches["Diferença"] = matches["Valor_odontotech"] - matches["Valor_ofx"]:
\* the Valor columns of the two inputs, not the rounded match_value.
Diferenca(l, r) == Sub(ToNumeric(l.Valor), ToNumeric(r.Valor))

EmptyResult == [matches |-> {}, odo_only |-> {}, ofx_only |-> {}]

_match_transactions(clean, ofx) ==
    IF Empty(clean) \/ Empty(ofx) THEN EmptyResult
    ELSE IF ~({"Pagto", "Valor"} \subseteq clean.columns) THEN EmptyResult
    ELSE LET odo_k == CumCount(DropNa(OdoKeyed(clean)))
             ofx_k == CumCount(DropNa(OfxKeyed(ofx)))
             merged == Merged(odo_k, ofx_k)
         IN  [matches |->
                 {[odo |-> x.odo.pos, ofx |-> x.ofx.pos,
                   Diferenca |-> Diferenca(x.odo, x.ofx)] :
                     x \in {y \in merged : y._merge = "both"}},
              odo_only |-> {x.odo.pos : x \in {y \in merged : y._merge = "left_only"}},
              ofx_only |-> {x.ofx.pos : x \in {y \in merged : y._merge = "right_only"}}]

(***************************************************************************)
(* Input tables of the matcher.                                            *)
(***************************************************************************)
Day1 == Ts(2024, 1, 1, 0, 0, 0)

Day1Noon == Ts(2024, 1, 1, 12, 0, 0)

Day2 == Ts(2024, 1, 2, 0, 0, 0)

LedgerRows ==
    {[Pagto |-> Day1, Valor |-> Norm(100, 0)],
     [Pagto |-> Day1, Valor |-> Norm(100004, 3)],
     [Pagto |-> Day2, Valor |-> Norm(100, 0)],
     [Pagto |-> Unparsable, Valor |-> Norm(100, 0)],
     [Pagto |-> Day1, Valor |-> NaN]}

BankRows ==
    {[Data |-> Day1Noon, Valor |-> Norm(100, 0)],
     [Data |-> Day1, Valor |-> Norm(99996, 3)],
     [Data |-> Day1, Valor |-> Norm(10001, 2)],
     [Data |-> NaT, Valor |-> Norm(100, 0)],
     [Data |-> Day2, Valor |-> NaN]}

SeqsUpTo(S, n) == UNION {[1..k -> S] : k \in 0..n}

LedgerTables ==
    [columns : {{"Pagto", "Valor", "CLASSE"}, {"Valor", "CLASSE"}},
     rows : SeqsUpTo(LedgerRows, MaxLedgerRows)]

BankTables ==
    [columns : {{"Data", "Valor", "Identificador"}},
     rows : SeqsUpTo(BankRows, MaxBankRows)]

OfxIdle ==
    /\ ofx_text = <<>>
    /\ ofx_given = None
    /\ ofx_pc = "idle"
    /\ records = <<>>
    /\ ofx_frame = <<>>

DateIdle ==
    /\ date_given = None
    /\ date_value = None
    /\ date_pc = "idle"
    /\ date_result = None

KindIdle ==
    /\ kind_given = None
    /\ kind_name = <<>>
    /\ kind_text = <<>>
    /\ kind_pc = "idle"
    /\ kind_result = "none"

CanonIdle ==
    /\ canon_columns = <<>>
    /\ canon_pc = "idle"
    /\ canon_result = <<>>
    /\ canon_again = <<>>

MoneyIdle ==
    /\ money_given = <<>>
    /\ money_series = [dtype |-> "O", cells |-> <<>>]
    /\ float_pc = "idle"
    /\ float_result = <<>>
    /\ float_again = <<>>
    /\ brl_pc = "idle"
    /\ brl_result = <<>>
    /\ brl_again = <<>>

CleanIdle ==
    /\ clean_given = <<>>
    /\ clean_raw = [columns |-> <<>>, rows |-> <<>>]
    /\ clean_pc = "idle"
    /\ clean_df = [columns |-> <<>>, rows |-> <<>>]
    /\ clean_stats = None

FrIdle ==
    /\ fr_given = <<>>
    /\ fr_text = <<>>
    /\ fr_pc = "idle"
    /\ fr_rows = <<>>
    /\ fr_frame = [columns |-> <<>>, rows |-> <<>>]

CrIdle ==
    /\ cr_given = None
    /\ cr_text = <<>>
    /\ cr_pc = "idle"
    /\ cr_lines = <<>>
    /\ cr_frame = [columns |-> <<>>, rows |-> <<>>]

GrpIdle ==
    /\ grp_df = [columns |-> <<>>, rows |-> <<>>]
    /\ grp_by = <<>>
    /\ grp_pc = "idle"
    /\ grp_result = None

LoadIdle ==
    /\ ld_name = <<>>
    /\ ld_data = <<>>
    /\ raw_pc = "idle"
    /\ raw_result = None
    /\ ld_pc = "idle"
    /\ ld_result = None

InitMatch ==
    /\ df_clean \in LedgerTables
    /\ df_ofx \in BankTables
    /\ m_pc = "input"
    /\ matches = {}
    /\ odo_only = {}
    /\ ofx_only = {}
    /\ OfxIdle
    /\ DateIdle
    /\ KindIdle
    /\ CanonIdle
    /\ MoneyIdle
    /\ CleanIdle
    /\ FrIdle
    /\ CrIdle
    /\ GrpIdle
    /\ LoadIdle

\* The presentation layer calls _match_transactions on the two loaded tables.
MatchTransactions ==
    /\ m_pc = "input"
    /\ LET out == _match_transactions(df_clean, df_ofx)
       IN  /\ matches' = out.matches
           /\ odo_only' = out.odo_only
           /\ ofx_only' = out.ofx_only
    /\ m_pc' = "matched"
    /\ UNCHANGED <<df_clean, df_ofx, not_match_vars>>

NextMatch == MatchTransactions

SpecMatch == InitMatch /\ [][NextMatch]_vars

(***************************************************************************)
(* Claims about _match_transactions.  A key is a calendar date and an      *)
(* amount rounded to 2 decimals, both non-null; the claims read the keys   *)
(* and the ranks from the input tables, not from the merge.                *)
(***************************************************************************)
LKey(i) == <<DtDate(ToDatetime(df_clean.rows[i].Pagto)), Round2(ToNumeric(df_clean.rows[i].Valor))>>

RKey(i) == <<DtDate(ToDatetime(df_ofx.rows[i].Data)), Round2(ToNumeric(df_ofx.rows[i].Valor))>>

NullKey(key) == IsNull(key[1]) \/ IsNull(key[2])

LPos == 1..Len(df_clean.rows)

RPos == 1..Len(df_ofx.rows)

\* The rows of each side that have a key.
LKeyed == {i \in LPos : ~NullKey(LKey(i))}

RKeyed == {i \in RPos : ~NullKey(RKey(i))}

AllKeys == {LKey(i) : i \in LKeyed} \cup {RKey(i) : i \in RKeyed}

LGroup(key) == {i \in LKeyed : LKey(i) = key}

RGroup(key) == {i \in RKeyed : RKey(i) = key}

\* Zero-based occurrence index of a row in its group, in original row order.
LRank(i) == Cardinality({j \in LGroup(LKey(i)) : j < i})

RRank(i) == Cardinality({j \in RGroup(RKey(i)) : j < i})

Min(a, b) == IF a <= b THEN a ELSE b

\* _match_transactions has run on a ledger that has its date and amount columns.
Matched == m_pc = "matched" /\ {"Pagto", "Valor"} \subseteq df_clean.columns

\* C1: when no date and no amount is null, every row of both tables is in
\* exactly one output: 2*|matched| + |sourceOnly| + |targetOnly| = n + m.
C1_Conservation ==
    (Matched /\ LKeyed = LPos /\ RKeyed = RPos) =>
        /\ 2 * Cardinality(matches) + Cardinality(odo_only) + Cardinality(ofx_only)
              = Len(df_clean.rows) + Len(df_ofx.rows)
        /\ \A i \in LPos : (i \in odo_only) # (\E x \in matches : x.odo = i)
        /\ \A i \in RPos : (i \in ofx_only) # (\E x \in matches : x.ofx = i)

C3_InOrderPairing ==
    Matched =>
        /\ \A x \in matches :
              /\ x.odo \in LKeyed /\ x.ofx \in RKeyed
              /\ LKey(x.odo) = RKey(x.ofx)
              /\ LRank(x.odo) = RRank(x.ofx)
        /\ \A i \in LKeyed : \A j \in RKeyed :
              (LKey(i) = RKey(j) /\ LRank(i) = RRank(j)) =>
                  \E x \in matches : x.odo = i /\ x.ofx = j
        /\ \A i \in LKeyed :
              (\A x \in matches : x.odo # i) => LRank(i) >= Cardinality(RGroup(LKey(i)))
        /\ \A j \in RKeyed :
              (\A x \in matches : x.ofx # j) => RRank(j) >= Cardinality(LGroup(RKey(j)))

\* Two duplicates on each side are paired in order and a third left one is left over.
C3_Witness ==
    /\ Matched
    /\ \E key \in AllKeys :
          /\ Cardinality(LGroup(key)) = 3
          /\ Cardinality(RGroup(key)) = 2
          /\ Cardinality({x \in matches : LKey(x.odo) = key}) = 2
          /\ \E i \in odo_only : LKey(i) = key

\* The tables without their null-keyed rows, and the original position of each
\* row that is kept.
LKept == SelectSeq([i \in LPos |-> i], LAMBDA i : i \in LKeyed)

RKept == SelectSeq([i \in RPos |-> i], LAMBDA i : i \in RKeyed)

LStripped == [columns |-> df_clean.columns, rows |-> [k \in 1..Len(LKept) |-> df_clean.rows[LKept[k]]]]

RStripped == [columns |-> df_ofx.columns, rows |-> [k \in 1..Len(RKept) |-> df_ofx.rows[RKept[k]]]]

StrippedResult == _match_transactions(LStripped, RStripped)

\* C4: a row with a null date or amount is in none of the three outputs, and
\* the outputs are those of the same tables without the null-keyed rows.
C4_NullKeyExclusion ==
    Matched =>
        /\ \A x \in matches : x.odo \in LKeyed /\ x.ofx \in RKeyed
        /\ odo_only \subseteq LKeyed
        /\ ofx_only \subseteq RKeyed
        /\ matches = {[odo |-> LKept[x.odo], ofx |-> RKept[x.ofx], Diferenca |-> x.Diferenca] :
                         x \in StrippedResult.matches}
        /\ odo_only = {LKept[i] : i \in StrippedResult.odo_only}
        /\ ofx_only = {RKept[i] : i \in StrippedResult.ofx_only}

\* C5: a matched pair has the same calendar date on both sides and the same
\* amount after rounding each side to 2 decimals.
C5_MatchEqualKeys ==
    Matched =>
        \A x \in matches :
            LET l == df_clean.rows[x.odo]
                r == df_ofx.rows[x.ofx]
            IN  /\ IsTs(l.Pagto) /\ IsTs(r.Data)
                /\ <<l.Pagto.y, l.Pagto.mo, l.Pagto.d>> = <<r.Data.y, r.Data.mo, r.Data.d>>
                /\ IsNum(l.Valor) /\ IsNum(r.Valor)
                /\ Round2(l.Valor) = Round2(r.Valor)

\* A match whose two sides differ in time of day and in unrounded amount.
C5_Witness ==
    /\ Matched
    /\ \E x \in matches :
          /\ df_clean.rows[x.odo].Pagto # df_ofx.rows[x.ofx].Data
          /\ df_clean.rows[x.odo].Valor # df_ofx.rows[x.ofx].Valor

\* C6 as stated: the difference field of every match is zero.
C6_DifferenceZero ==
    Matched => \A x \in matches : x.Diferenca = Zero

\* C6 amended: the difference field is the left unrounded amount minus the
\* right unrounded amount; it is zero when the two are equal and otherwise a
\* residual of at most 0.01.
C6_DifferenceUnrounded ==
    Matched =>
        \A x \in matches :
            LET l == df_clean.rows[x.odo].Valor
                r == df_ofx.rows[x.ofx].Valor
                e == Max(l.e, r.e)
                d == l.m * Pow10(e - l.e) - r.m * Pow10(e - r.e)
            IN  /\ x.Diferenca = Norm(d, e)
                /\ (l = r) <=> (x.Diferenca = Zero)
                /\ 100 * d <= Pow10(e) /\ 100 * d >= 0 - Pow10(e)

\* A match with a non-zero difference, and one with a zero difference.
C6_Witness ==
    /\ Matched
    /\ \E x \in matches : x.Diferenca # Zero
    /\ \E x \in matches : x.Diferenca = Zero

LUnmatched == {i \in LKeyed : \A x \in matches : x.odo # i}

RUnmatched == {j \in RKeyed : \A x \in matches : x.ofx # j}

\* C29: no source-only row and target-only row have the same calendar date and
\* the same amount rounded to 2 decimals; when both tables are non-empty, a
\* row with a key stays unmatched only if every row of the other side with
\* that key is matched.
C29_MatchingMaximal ==
    Matched =>
        /\ \A i \in odo_only : \A j \in ofx_only : LKey(i) # RKey(j)
        /\ (~Empty(df_clean) /\ ~Empty(df_ofx)) =>
               /\ \A i \in LUnmatched : \A j \in RGroup(LKey(i)) : j \notin RUnmatched
               /\ \A j \in RUnmatched : \A i \in LGroup(RKey(j)) : i \notin LUnmatched

\* A source-only row whose key the other side has, next to a target-only row
\* with another key.
C29_Witness ==
    /\ Matched
    /\ \E i \in odo_only : RGroup(LKey(i)) # {} /\ i \in LUnmatched
    /\ \E j \in ofx_only : j \in RUnmatched

(***************************************************************************)
(* Text: str methods of Python on sequences of one-character strings.      *)
(***************************************************************************)
LowerCase == <<"a", "b", "c", "d", "e", "f", "g", "h", "i", "j", "k", "l", "m",
               "n", "o", "p", "q", "r", "s", "t", "u", "v", "w", "x", "y", "z">>

UpperCase == <<"A", "B", "C", "D", "E", "F", "G", "H", "I", "J", "K", "L", "M",
               "N", "O", "P", "Q", "R", "S", "T", "U", "V", "W", "X", "Y", "Z">>

DigitChars == <<"0", "1", "2", "3", "4", "5", "6", "7", "8", "9">>

\* The accented letters of the model, small and capital.
AccentedSmall == <<"ã", "ç", "ó", "ú">>

AccentedCapital == <<"Ã", "Ç", "Ó", "Ú">>

\* The characters of the model in code point order (the order str compares by).
CodePoints == <<"\t", "\n", " ", ",", "-", ".", "/", ":">> \o DigitChars
              \o <<"<", ">">> \o UpperCase \o <<"[", "]">> \o LowerCase

RECURSIVE FirstIndex(_, _, _)
FirstIndex(seq, c, i) ==
    IF i > Len(seq) THEN 0 ELSE IF seq[i] = c THEN i ELSE FirstIndex(seq, c, i + 1)

\* The position of the first c in seq, 0 when there is none.
IndexIn(seq, c) == FirstIndex(seq, c, 1)

\* The no-break space, U+00A0.
NBSP == " "

\* str.isspace of one character.
IsSpace(c) == c \in {" ", "\t", "\n", NBSP}

\* The value of each digit, the capital of each small letter and the rank of
\* each character, as tables.
DigitOf == [c \in {DigitChars[i] : i \in 1..10} |-> IndexIn(DigitChars, c) - 1]

UpperOf == [c \in {LowerCase[i] : i \in 1..26} |-> UpperCase[IndexIn(LowerCase, c)]]
           @@ [c \in {AccentedSmall[i] : i \in 1..Len(AccentedSmall)} |->
                   AccentedCapital[IndexIn(AccentedSmall, c)]]

LowerOf == [c \in {UpperCase[i] : i \in 1..26} |-> LowerCase[IndexIn(UpperCase, c)]]
           @@ [c \in {AccentedCapital[i] : i \in 1..Len(AccentedCapital)} |->
                   AccentedSmall[IndexIn(AccentedCapital, c)]]

CodeOf == [c \in {CodePoints[i] : i \in 1..Len(CodePoints)} |-> IndexIn(CodePoints, c)]

\* str.isdigit of one character.
IsDigit(c) == c \in DOMAIN DigitOf

DigitVal(c) == DigitOf[c]

UpperChar(c) == IF c \in DOMAIN UpperOf THEN UpperOf[c] ELSE c

\* str.upper
Upper(s) == [i \in 1..Len(s) |-> UpperChar(s[i])]

LowerChar(c) == IF c \in DOMAIN LowerOf THEN LowerOf[c] ELSE c

\* str.lower
Lower(s) == [i \in 1..Len(s) |-> LowerChar(s[i])]

\* str.endswith
EndsWith(s, suffix) ==
    Len(s) >= Len(suffix) /\ SubSeq(s, Len(s) - Len(suffix) + 1, Len(s)) = suffix

\* sub in s
Occurs(sub, s) ==
    \E i \in 0..(Len(s) - Len(sub)) : SubSeq(s, i + 1, i + Len(sub)) = sub

RECURSIVE FirstNonSpace(_, _)
FirstNonSpace(s, i) ==
    IF i <= Len(s) /\ IsSpace(s[i]) THEN FirstNonSpace(s, i + 1) ELSE i

RECURSIVE LastNonSpace(_, _)
LastNonSpace(s, i) ==
    IF i >= 1 /\ IsSpace(s[i]) THEN LastNonSpace(s, i - 1) ELSE i

\* str.strip: without the white space at either end.
Strip(s) == SubSeq(s, FirstNonSpace(s, 1), LastNonSpace(s, Len(s)))

\* str.startswith
StartsWith(s, prefix) ==
    Len(s) >= Len(prefix) /\ SubSeq(s, 1, Len(prefix)) = prefix

\* c in s
Contains(s, c) == IndexIn(s, c) > 0

\* s.split(c, 1)[0] and s.split(c, 1)[1], for s that contains c.
BeforeFirst(s, c) == SubSeq(s, 1, IndexIn(s, c) - 1)

AfterFirst(s, c) == SubSeq(s, IndexIn(s, c) + 1, Len(s))

\* str.replace(old, new) for single characters.
ReplaceChar(s, old, new) == [i \in 1..Len(s) |-> IF s[i] = old THEN new ELSE s[i]]

RECURSIVE SplitLines(_)
\* str.splitlines: the lines between line breaks, no empty line after a final break.
SplitLines(text) ==
    IF text = <<>> THEN <<>>
    ELSE IF Contains(text, "\n")
         THEN <<BeforeFirst(text, "\n")>> \o SplitLines(AfterFirst(text, "\n"))
         ELSE <<text>>

RECURSIVE StrLess(_, _)
\* a < b for str.
StrLess(a, b) ==
    IF b = <<>> THEN FALSE
    ELSE IF a = <<>> THEN TRUE
    ELSE IF Head(a) = Head(b) THEN StrLess(Tail(a), Tail(b))
    ELSE CodeOf[Head(a)] < CodeOf[Head(b)]

\* A text cell, and the null of an empty text (x or None).
Str(s) == [k |-> "str", s |-> s]

OrNone(s) == IF s = <<>> THEN None ELSE Str(s)

(***************************************************************************)
(* _parse_stmttrn_blocks (ofx_utils.py).  A record is a dict: a function   *)
(* from tag names to values.  current is None when open is FALSE.          *)
(***************************************************************************)
TagOpen == <<"<", "S", "T", "M", "T", "T", "R", "N", ">">>

TagClose == <<"<", "/", "S", "T", "M", "T", "T", "R", "N", ">">>

EmptyDict == <<>>

\* dict[name] = value
DictSet(dict, name, value) == (name :> value) @@ dict

\* dict.get(name) or "": the value, "" when the key is missing.
DictGet(dict, name) == IF name \in DOMAIN dict THEN dict[name] ELSE <<>>

_strip_trailing_tag(value) ==
    IF Contains(value, "<") THEN Strip(BeforeFirst(value, "<")) ELSE Strip(value)

ParserStart == [records |-> <<>>, open |-> FALSE, current |-> EmptyDict]

\* if current: an open accumulator that holds at least one field.
Truthy(st) == st.open /\ DOMAIN st.current # {}

\* One pass of the loop over the lines (ofx_utils.py 49-72).
ParseLine(st, raw_line) ==
    LET line == Strip(raw_line)
        tag == Upper(line)
    IN  IF line = <<>> THEN st
        ELSE IF StartsWith(tag, TagOpen)
             THEN [st EXCEPT !.open = TRUE, !.current = EmptyDict]
        ELSE IF StartsWith(tag, TagClose)
             THEN [records |-> IF Truthy(st) THEN Append(st.records, st.current) ELSE st.records,
                   open |-> FALSE, current |-> EmptyDict]
        ELSE IF ~st.open THEN st
        ELSE IF ~StartsWith(line, <<"<">>) \/ ~Contains(line, ">") THEN st
        ELSE LET rest == Tail(line)
                 name == Upper(Strip(BeforeFirst(rest, ">")))
                 value == _strip_trailing_tag(AfterFirst(rest, ">"))
             IN  [st EXCEPT !.current = DictSet(st.current, name, value)]

\* The partial record dropped at the end of the input.
FlushAtEnd_Discard(st) == st.records

\* After the loop (ofx_utils.py 73-75): an accumulator still open is emitted.
FlushAtEnd(st) == IF Truthy(st) THEN Append(st.records, st.current) ELSE st.records

RECURSIVE ParseLines(_, _)
ParseLines(st, lines) ==
    IF lines = <<>> THEN st ELSE ParseLines(ParseLine(st, Head(lines)), Tail(lines))

_parse_stmttrn_blocks(text) == FlushAtEnd(ParseLines(ParserStart, SplitLines(text)))

(***************************************************************************)
(* _parse_ofx_date and _parse_amount (ofx_utils.py).                       *)
(***************************************************************************)
RECURSIVE DigitsValue(_)
\* int(digits) of a string of digits.
DigitsValue(ds) ==
    IF ds = <<>> THEN 0 ELSE 10 * DigitsValue(SubSeq(ds, 1, Len(ds) - 1)) + DigitVal(ds[Len(ds)])

IsLeap(y) == (y % 4 = 0 /\ y % 100 # 0) \/ y % 400 = 0

DaysIn(y, mo) ==
    IF mo = 2 THEN (IF IsLeap(y) THEN 29 ELSE 28)
    ELSE IF mo \in {4, 6, 9, 11} THEN 30 ELSE 31

\* The two digits at positions from, from + 1 of ds, 0 when ds is too short.
Field2(ds, from) == IF Len(ds) >= from + 1 THEN DigitsValue(SubSeq(ds, from, from + 1)) ELSE 0

\* %Y%d%m... : the day and the month read in each other's place.
Strptime_DayMonthSwapped(ds) ==
    LET y == DigitsValue(SubSeq(ds, 1, 4))
        mo == Field2(ds, 7)
        d == Field2(ds, 5)
        h == Field2(ds, 9)
        mi == Field2(ds, 11)
        sec == Field2(ds, 13)
    IN  IF /\ y >= 1 /\ mo >= 1 /\ mo <= 12 /\ d >= 1 /\ d <= DaysIn(y, mo)
           /\ h <= 23 /\ mi <= 59 /\ sec <= 59
        THEN Ts(y, mo, d, h, mi, sec)
        ELSE NaT

\* datetime.strptime(ds, fmt) for fmt %Y%m%d%H%M%S, %Y%m%d%H%M or %Y%m%d and ds
\* a string of 14, 12 or 8 digits: every field takes its full width, so the
\* parse succeeds exactly when each field is in range and the day exists.
\* NaT stands for the ValueError.
Strptime(ds) ==
    LET y == DigitsValue(SubSeq(ds, 1, 4))
        mo == Field2(ds, 5)
        d == Field2(ds, 7)
        h == Field2(ds, 9)
        mi == Field2(ds, 11)
        sec == Field2(ds, 13)
    IN  IF /\ y >= 1 /\ mo >= 1 /\ mo <= 12 /\ d >= 1 /\ d <= DaysIn(y, mo)
           /\ h <= 23 /\ mi <= 59 /\ sec <= 59
        THEN Ts(y, mo, d, h, mi, sec)
        ELSE NaT

\* The candidates tried from the shortest to the longest.
Candidates_ShortestFirst == <<8, 12, 14>>

\* The prefix lengths of the candidates, in the order they are tried.
Candidates == <<14, 12, 8>>

\* pd.to_datetime(cleaned, errors="coerce"), reached when no candidate parses:
\* the texts of the model that reach it (no digits, or digits that are no date)
\* have no reading as a date.
ToDatetimeText(cleaned) == NaT

RECURSIVE TryCandidates(_, _, _)
TryCandidates(digits, cleaned, k) ==
    IF k > Len(Candidates) THEN ToDatetimeText(cleaned)
    ELSE IF Len(digits) >= Candidates[k] /\ IsTs(Strptime(SubSeq(digits, 1, Candidates[k])))
         THEN Strptime(SubSeq(digits, 1, Candidates[k]))
         ELSE TryCandidates(digits, cleaned, k + 1)

_parse_ofx_date(value) ==
    IF value = <<>> THEN NaT
    ELSE IF Strip(value) = <<>> THEN NaT
    ELSE LET stripped == Strip(value)
             cleaned == IF Contains(stripped, "[") THEN Strip(BeforeFirst(stripped, "[")) ELSE stripped
             base == SelectSeq(cleaned, LAMBDA c : c # "T")
             digits == SelectSeq(base, IsDigit)
         IN  TryCandidates(digits, cleaned, 1)

\* float(text) for text made of a sign, digits and "."; NaN stands for the ValueError.
ParseFloat(text) ==
    LET signed == text # <<>> /\ Head(text) \in {"+", "-"}
        body == IF signed THEN Tail(text) ELSE text
        int_part == IF Contains(body, ".") THEN BeforeFirst(body, ".") ELSE body
        frac_part == IF Contains(body, ".") THEN AfterFirst(body, ".") ELSE <<>>
        all_digits == int_part \o frac_part
    IN  IF all_digits # <<>> /\ \A i \in 1..Len(all_digits) : IsDigit(all_digits[i])
        THEN Norm((IF signed /\ Head(text) = "-" THEN -1 ELSE 1) * DigitsValue(all_digits),
                  Len(frac_part))
        ELSE NaN

\* _parse_amount; its None is the NaN that pd.to_numeric makes of it.
_parse_amount(text) ==
    LET cleaned == ReplaceChar(Strip(text), ",", ".")
    IN  IF cleaned = <<>> THEN NaN ELSE ParseFloat(cleaned)

(***************************************************************************)
(* read_ofx_transactions (ofx_utils.py).                                   *)
(***************************************************************************)
DTPOSTED == <<"D", "T", "P", "O", "S", "T", "E", "D">>

DTUSER == <<"D", "T", "U", "S", "E", "R">>

TRNAMT == <<"T", "R", "N", "A", "M", "T">>

TRNTYPE == <<"T", "R", "N", "T", "Y", "P", "E">>

MEMO == <<"M", "E", "M", "O">>

NAME == <<"N", "A", "M", "E">>

CHECKNUM == <<"C", "H", "E", "C", "K", "N", "U", "M">>

REFNUM == <<"R", "E", "F", "N", "U", "M">>

FITID == <<"F", "I", "T", "I", "D">>

\* a or b for two str (or None) values: a unless it is empty (or None).
Or(a, b) == IF a # <<>> THEN a ELSE b

\* A row whose identifier never falls back to REFNUM.
OfxRow_NoFallback(rec) ==
    LET memo == DictGet(rec, MEMO)
        name == DictGet(rec, NAME)
    IN  [Data |-> _parse_ofx_date(DictGet(rec, DTPOSTED)),
         Valor |-> _parse_amount(DictGet(rec, TRNAMT)),
         Tipo |-> OrNone(Upper(Strip(DictGet(rec, TRNTYPE)))),
         Descricao |-> OrNone(Or(Strip(name), Strip(memo))),
         Documento |-> OrNone(Strip(DictGet(rec, CHECKNUM))),
         Identificador |-> OrNone(Strip(DictGet(rec, FITID))),
         Memo |-> OrNone(Strip(memo)),
         Nome |-> OrNone(Strip(name))]

\* The row made of one raw record (ofx_utils.py 121-137).
OfxRow(rec) ==
    LET memo == DictGet(rec, MEMO)
        name == DictGet(rec, NAME)
    IN  [Data |-> _parse_ofx_date(Or(DictGet(rec, DTPOSTED), DictGet(rec, DTUSER))),
         Valor |-> _parse_amount(DictGet(rec, TRNAMT)),
         Tipo |-> OrNone(Upper(Strip(DictGet(rec, TRNTYPE)))),
         Descricao |-> OrNone(Or(Strip(name), Strip(memo))),
         Documento |-> OrNone(Strip(Or(DictGet(rec, CHECKNUM), DictGet(rec, REFNUM)))),
         Identificador |-> OrNone(Strip(Or(DictGet(rec, FITID), DictGet(rec, REFNUM)))),
         Memo |-> OrNone(Strip(memo)),
         Nome |-> OrNone(Strip(name))]

RECURSIVE TupleLess(_, _)
TupleLess(a, b) ==
    IF a = <<>> THEN FALSE
    ELSE IF Head(a) = Head(b) THEN TupleLess(Tail(a), Tail(b))
    ELSE Head(a) < Head(b)

TsTuple(t) == <<t.y, t.mo, t.d, t.h, t.mi, t.s>>

\* Ascending order of one sort column, nulls last.
DataLess(a, b) ==
    IF IsTs(a) /\ IsTs(b) THEN TupleLess(TsTuple(a), TsTuple(b)) ELSE IsTs(a) /\ ~IsTs(b)

IdLess(a, b) ==
    IF a.k = "str" /\ b.k = "str" THEN StrLess(a.s, b.s) ELSE a.k = "str" /\ b.k # "str"

\* The order of sort_values(["Data", "Identificador"]).
RowLess(a, b) ==
    \/ DataLess(a.Data, b.Data)
    \/ a.Data = b.Data /\ IdLess(a.Identificador, b.Identificador)

\* r put into sorted rows after every row that does not come after it.
InsertRow(sorted, r) ==
    LET n == Cardinality({i \in 1..Len(sorted) : ~RowLess(r, sorted[i])})
    IN  SubSeq(sorted, 1, n) \o <<r>> \o SubSeq(sorted, n + 1, Len(sorted))

RECURSIVE SortValues(_)
\* sort_values(...).reset_index(drop=True): a stable sort.
SortValues(rows) ==
    IF rows = <<>> THEN <<>>
    ELSE InsertRow(SortValues(SubSeq(rows, 1, Len(rows) - 1)), rows[Len(rows)])

read_ofx_transactions(text) ==
    LET raw_records == _parse_stmttrn_blocks(text)
        rows == [i \in 1..Len(raw_records) |-> OfxRow(raw_records[i])]
    IN  SortValues(rows)

(***************************************************************************)
(* OFX texts given to the parser.  ofx_given keeps what a text was written *)
(* from: a sequence of kinds of lines, or the fields of one block, each    *)
(* field with the text written after its tag (text) and the value it       *)
(* stands for (want).                                                      *)
(***************************************************************************)
MaxOfxLines == 5

LineKinds == {"open", "close", "date", "fitid", "blank", "other"}

FieldKinds == {"date", "fitid"}

LineText(kind) ==
    CASE kind = "open" -> TagOpen
      [] kind = "close" -> <<"<", "/", "s", "t", "m", "t", "t", "r", "n", ">">>
      [] kind = "date" -> <<"<">> \o DTPOSTED \o <<">", "2", "0", "2", "4", "0", "1", "1", "5">>
      [] kind = "fitid" -> <<" ", "<", "f", "i", "t", "i", "d", ">", "A", "<", "/", "F", "I", "T", "I", "D", ">">>
      [] kind = "blank" -> <<" ", " ">>
      [] kind = "other" -> <<"N", "E", "W", "F", "I", "L", "E", "U", "I", "D", ":", "N", "O", "N", "E">>

\* The tag and the value a field line stands for.
FieldName(kind) == IF kind = "date" THEN DTPOSTED ELSE FITID

FieldValue(kind) == IF kind = "date" THEN <<"2", "0", "2", "4", "0", "1", "1", "5">> ELSE <<"A">>

RECURSIVE JoinLines(_)
\* "\n".join(lines)
JoinLines(lines) ==
    IF lines = <<>> THEN <<>>
    ELSE IF Len(lines) = 1 THEN lines[1]
    ELSE lines[1] \o <<"\n">> \o JoinLines(Tail(lines))

Pad2(n) == <<DigitChars[(n \div 10) + 1], DigitChars[(n % 10) + 1]>>

Pad4(n) == Pad2(n \div 100) \o Pad2(n % 100)

\* YYYYMMDDhhmmss of a timestamp.
Format14(t) == Pad4(t.y) \o Pad2(t.mo) \o Pad2(t.d) \o Pad2(t.h) \o Pad2(t.mi) \o Pad2(t.s)

RECURSIVE NatDigits(_)
NatDigits(n) == IF n < 10 THEN <<DigitChars[n + 1]>> ELSE NatDigits(n \div 10) \o <<DigitChars[(n % 10) + 1]>>

RECURSIVE PadLeft(_, _)
PadLeft(ds, width) == IF Len(ds) >= width THEN ds ELSE PadLeft(<<"0">> \o ds, width)

\* A decimal written with the given decimal separator.
FormatDecimal(v, sep) ==
    LET abs == IF v.m < 0 THEN 0 - v.m ELSE v.m
        ds == PadLeft(NatDigits(abs), v.e + 1)
    IN  (IF v.m < 0 THEN <<"-">> ELSE <<>>)
        \o SubSeq(ds, 1, Len(ds) - v.e)
        \o (IF v.e > 0 THEN <<sep>> \o SubSeq(ds, Len(ds) - v.e + 1, Len(ds)) ELSE <<>>)

Absent == [form |-> "absent", text |-> <<>>, want |-> None]

Field(form, text, want) == [form |-> form, text |-> text, want |-> want]

Ts14Option(t) == Field("ts14", Format14(t), t)

DtPostedOptions ==
    {Absent,
     Field("empty", <<>>, NaT),
     Ts14Option(Ts(2024, 1, 15, 12, 0, 0)),
     Ts14Option(Ts(2024, 2, 29, 23, 59, 59)),
     Ts14Option(Ts(2023, 12, 31, 0, 0, 0)),
     Field("ts8", <<"2", "0", "2", "4", "0", "1", "1", "5">>, Ts(2024, 1, 15, 0, 0, 0)),
     Field("tz", Format14(Ts(2024, 1, 15, 12, 0, 0)) \o <<"[", "-", "3", ":", "B", "R", "T", "]">>,
           Ts(2024, 1, 15, 12, 0, 0)),
     Field("text", <<"n", "/", "a">>, NaT)}

DtUserOptions == {Absent, Ts14Option(Ts(2024, 3, 10, 8, 30, 0))}

DecimalOption(v, sep) == Field("decimal", FormatDecimal(v, sep), v)

TrnAmtOptions ==
    {Absent,
     DecimalOption(Norm(-15075, 2), "."),
     DecimalOption(Norm(100, 0), "."),
     DecimalOption(Norm(5, 1), "."),
     DecimalOption(Norm(15075, 2), ","),
     Field("text", <<"a", "b", "c">>, NaN)}

Text(form, text, want) == [form |-> form, text |-> text, want |-> want]

ABC123 == <<"A", "B", "C", "1", "2", "3">>

FitIdOptions ==
    {Absent,
     Text("empty", <<>>, <<>>),
     Text("text", ABC123 \o <<"<", "/", "F", "I", "T", "I", "D", ">">>, ABC123),
     Text("text", <<"Z", "9">>, <<"Z", "9">>)}

RefNumOptions == {Absent, Text("text", <<"R", "1">>, <<"R", "1">>)}

CheckNumOptions == {Absent, Text("empty", <<>>, <<>>), Text("text", <<"C", "7">>, <<"C", "7">>)}

NameOptions ==
    {Absent,
     Text("empty", <<" ", "<", "/", "N", "A", "M", "E", ">">>, <<>>),
     Text("text", <<"A", "C", "M", "E">>, <<"A", "C", "M", "E">>)}

MemoOptions == {Absent, Text("empty", <<>>, <<>>), Text("text", <<"P", "I", "X">>, <<"P", "I", "X">>)}

TrnTypeOptions == {Absent, Text("text", <<"d", "e", "b", "i", "t">>, <<"D", "E", "B", "I", "T">>)}

\* One block with dates and amounts, and one block with the text fields.
BlockGivens ==
    [kind : {"block"}, closed : BOOLEAN,
     dtposted : DtPostedOptions, dtuser : DtUserOptions, trnamt : TrnAmtOptions,
     fitid : {f \in FitIdOptions : f.form # "empty"},
     refnum : {Absent}, checknum : {Absent}, name : {Absent}, memo : {Absent},
     trntype : {Absent}]
    \cup
    [kind : {"block"}, closed : {TRUE},
     dtposted : {Absent}, dtuser : {Absent}, trnamt : {Absent},
     fitid : FitIdOptions, refnum : RefNumOptions, checknum : CheckNumOptions,
     name : NameOptions, memo : MemoOptions, trntype : TrnTypeOptions]

LineGivens == [kind : {"lines"}, lines : SeqsUpTo(LineKinds, MaxOfxLines)]

FieldLine(tag, opt) ==
    IF opt.form = "absent" THEN <<>> ELSE << <<"<">> \o tag \o <<">">> \o opt.text >>

\* The text written from what is given.
OfxTextOf(g) ==
    IF g.kind = "lines" THEN JoinLines([i \in 1..Len(g.lines) |-> LineText(g.lines[i])])
    ELSE JoinLines(<<TagOpen>>
                   \o FieldLine(TRNTYPE, g.trntype) \o FieldLine(DTPOSTED, g.dtposted)
                   \o FieldLine(DTUSER, g.dtuser) \o FieldLine(TRNAMT, g.trnamt)
                   \o FieldLine(FITID, g.fitid) \o FieldLine(CHECKNUM, g.checknum)
                   \o FieldLine(REFNUM, g.refnum) \o FieldLine(NAME, g.name)
                   \o FieldLine(MEMO, g.memo)
                   \o (IF g.closed THEN <<TagClose>> ELSE <<>>))

MatchIdle ==
    /\ df_clean = [columns |-> {}, rows |-> <<>>]
    /\ df_ofx = [columns |-> {}, rows |-> <<>>]
    /\ m_pc = "idle"
    /\ matches = {}
    /\ odo_only = {}
    /\ ofx_only = {}

InitOfx ==
    /\ ofx_given \in BlockGivens \cup LineGivens
    /\ ofx_text = OfxTextOf(ofx_given)
    /\ ofx_pc = "input"
    /\ records = <<>>
    /\ ofx_frame = <<>>
    /\ MatchIdle
    /\ DateIdle
    /\ KindIdle
    /\ CanonIdle
    /\ MoneyIdle
    /\ CleanIdle
    /\ FrIdle
    /\ CrIdle
    /\ GrpIdle
    /\ LoadIdle

\* A caller parses the blocks of the text.
ParseStmttrnBlocks ==
    /\ ofx_pc = "input"
    /\ records' = _parse_stmttrn_blocks(ofx_text)
    /\ ofx_pc' = "blocks"
    /\ UNCHANGED <<ofx_text, ofx_given, ofx_frame, not_ofx_vars>>

\* _load_ofx_files reads the text into a table.
ReadOfxTransactions ==
    /\ ofx_pc = "input"
    /\ records' = _parse_stmttrn_blocks(ofx_text)
    /\ ofx_frame' = read_ofx_transactions(ofx_text)
    /\ ofx_pc' = "read"
    /\ UNCHANGED <<ofx_text, ofx_given, not_ofx_vars>>

NextOfx == ParseStmttrnBlocks \/ ReadOfxTransactions

SpecOfx == InitOfx /\ [][NextOfx]_vars

(***************************************************************************)
(* Claims about _parse_stmttrn_blocks, read from the kinds of lines the    *)
(* text was written from.                                                  *)
(***************************************************************************)
BlocksParsed == ofx_pc = "blocks" /\ ofx_given.kind = "lines"

OpenLines == {i \in 1..Len(ofx_given.lines) : ofx_given.lines[i] = "open"}

LastOpen == CHOOSE i \in OpenLines : \A j \in OpenLines : j <= i

\* The input ends inside a block: no </STMTTRN> after the last <STMTTRN>.
OpenAtEnd ==
    /\ OpenLines # {}
    /\ \A i \in (LastOpen + 1)..Len(ofx_given.lines) : ofx_given.lines[i] # "close"

\* The field lines after the last <STMTTRN>, and the record they make.
LastFields == {ofx_given.lines[i] : i \in (LastOpen + 1)..Len(ofx_given.lines)} \cap FieldKinds

LastRecord == [name \in {FieldName(f) : f \in LastFields} |->
                  FieldValue(CHOOSE f \in LastFields : FieldName(f) = name)]

\* The same text with the missing </STMTTRN> added at its end.
ClosedText == ofx_text \o <<"\n">> \o TagClose

\* C7 as stated: when the input ends with an accumulator still open, the
\* partial record is emitted as the last record and the records before it are
\* those of the well-closed text.
C7_TruncatedEmitted ==
    (BlocksParsed /\ OpenAtEnd) =>
        /\ records # <<>>
        /\ records[Len(records)] = LastRecord
        /\ records = _parse_stmttrn_blocks(ClosedText)

\* C7 amended: when the input ends with an accumulator still open that holds
\* at least one field, the partial record is emitted as the last record; with
\* no field nothing is emitted for it; either way the records are those of the
\* text with the missing </STMTTRN> added.
C7_TruncatedWithFieldEmitted ==
    (BlocksParsed /\ OpenAtEnd) =>
        /\ LastFields # {} => (records # <<>> /\ records[Len(records)] = LastRecord)
        /\ records = _parse_stmttrn_blocks(ClosedText)

\* A text that ends inside a second block, after a first block that was closed.
C7_Witness ==
    /\ BlocksParsed /\ OpenAtEnd
    /\ LastFields # {}
    /\ Len(records) = 2
    /\ records[2] = LastRecord

\* C8: the number of records equals the number of <STMTTRN> opening lines.
C8_OneRecordPerOpening ==
    BlocksParsed => Len(records) = Cardinality(OpenLines)

(***************************************************************************)
(* Claims about read_ofx_transactions, read from the fields the block was  *)
(* written from.                                                           *)
(***************************************************************************)
BlockRead == ofx_pc = "read" /\ ofx_given.kind = "block"

GivenFields ==
    {ofx_given.dtposted, ofx_given.dtuser, ofx_given.trnamt, ofx_given.fitid,
     ofx_given.refnum, ofx_given.checknum, ofx_given.name, ofx_given.memo,
     ofx_given.trntype}

\* C9: one well-formed block with a valid 14-digit DTPOSTED, a decimal TRNAMT
\* and a non-empty FITID gives exactly one record, with the date of DTPOSTED,
\* the amount of TRNAMT and the text of FITID.
C9_RoundTrip ==
    (/\ BlockRead /\ ofx_given.closed
     /\ ofx_given.dtposted.form = "ts14"
     /\ ofx_given.trnamt.form = "decimal"
     /\ ofx_given.fitid.form = "text") =>
        /\ Len(ofx_frame) = 1
        /\ ofx_frame[1].Data = ofx_given.dtposted.want
        /\ ofx_frame[1].Valor = ofx_given.trnamt.want
        /\ ofx_frame[1].Identificador = Str(ofx_given.fitid.want)

\* The block of the example: 20240115120000, -150.75, ABC123.
C9_Witness ==
    /\ BlockRead /\ ofx_given.closed
    /\ ofx_given.dtposted.form = "ts14"
    /\ ofx_given.dtposted.want = Ts(2024, 1, 15, 12, 0, 0)
    /\ ofx_given.fitid.form = "text"
    /\ ofx_given.fitid.want = ABC123
    /\ Len(ofx_frame) = 1
    /\ DtDate(ofx_frame[1].Data) = [k |-> "date", y |-> 2024, mo |-> 1, d |-> 15]
    /\ ofx_frame[1].Valor = [k |-> "num", m |-> -15075, e |-> 2]
    /\ ofx_frame[1].Identificador = Str(ABC123)

\* The first of two texts that is not empty, as a cell; null when both are empty.
FirstOf(a, b) == IF a.form = "text" THEN Str(a.want)
                 ELSE IF b.form = "text" THEN Str(b.want)
                 ELSE None

\* A text cell is null or holds a character that is not white space.
NoEmptyText(cell) ==
    cell = None \/ (cell.k = "str" /\ \E i \in 1..Len(cell.s) : ~IsSpace(cell.s[i]))

\* C10: description is NAME else MEMO, document number is CHECKNUM else REFNUM,
\* identifier is FITID else REFNUM, the posted date comes from DTPOSTED when it
\* has a value and from DTUSER otherwise, and no text field is the empty string.
C10_Fallbacks ==
    BlockRead =>
        /\ Len(ofx_frame) = (IF \E f \in GivenFields : f.form # "absent" THEN 1 ELSE 0)
        /\ \A i \in 1..Len(ofx_frame) :
              LET row == ofx_frame[i]
              IN  /\ row.Descricao = FirstOf(ofx_given.name, ofx_given.memo)
                  /\ row.Documento = FirstOf(ofx_given.checknum, ofx_given.refnum)
                  /\ row.Identificador = FirstOf(ofx_given.fitid, ofx_given.refnum)
                  /\ row.Data = (IF ofx_given.dtposted.form \notin {"absent", "empty"}
                                 THEN ofx_given.dtposted.want
                                 ELSE IF ofx_given.dtuser.form # "absent"
                                      THEN ofx_given.dtuser.want
                                      ELSE NaT)
                  /\ \A cell \in {row.Descricao, row.Documento, row.Identificador,
                                  row.Tipo, row.Memo, row.Nome} : NoEmptyText(cell)

\* A block whose NAME and FITID are empty: MEMO and REFNUM take their place.
C10_Witness ==
    /\ BlockRead
    /\ ofx_given.name.form = "empty" /\ ofx_given.memo.form = "text"
    /\ ofx_given.fitid.form = "empty" /\ ofx_given.refnum.form = "text"
    /\ ofx_given.checknum.form = "absent"
    /\ Len(ofx_frame) = 1
    /\ ofx_frame[1].Descricao = Str(<<"P", "I", "X">>)
    /\ ofx_frame[1].Identificador = Str(<<"R", "1">>)
    /\ ofx_frame[1].Documento = Str(<<"R", "1">>)
    /\ ofx_frame[1].Nome = None

\* A block with no DTPOSTED value takes its date from DTUSER.
C10_DateWitness ==
    /\ BlockRead
    /\ ofx_given.dtposted.form = "empty"
    /\ ofx_given.dtuser.form = "ts14"
    /\ ofx_frame[1].Data = Ts(2024, 3, 10, 8, 30, 0)

(***************************************************************************)
(* _parse_ofx_date on its own (ofx_utils.py 78-99): the value is written   *)
(* from a year, a month, a day and up to three time fields, each possibly  *)
(* out of range, in the basic or the separated style, with or without a    *)
(* fraction and a [timezone] suffix.                                       *)
(***************************************************************************)
TimeOptions ==
    {<<>>, <<12>>, <<12, 0>>, <<25, 0>>, <<12, 60>>, <<12, 0, 0>>, <<23, 59, 59>>,
     <<12, 0, 60>>, <<12, 60, 0>>, <<24, 0, 0>>}

ZoneBRT == <<"[", "-", "3", ":", "B", "R", "T", "]">>

SuffixOptions == {"none", "zone", "fraction"}

StampGivens ==
    {g \in [kind : {"stamp"}, y : {2023, 2024}, mo : {1, 2, 13}, d : {0, 15, 29, 31},
            time : TimeOptions, style : {"basic", "iso"}, suffix : SuffixOptions,
            pad : BOOLEAN] :
        g.suffix = "fraction" => Len(g.time) = 3}

DateGivens ==
    StampGivens \cup [kind : {"missing", "empty", "blank", "text", "zone"}]

RECURSIVE JoinWith(_, _)
\* sep.join(parts)
JoinWith(parts, sep) ==
    IF parts = <<>> THEN <<>>
    ELSE IF Len(parts) = 1 THEN parts[1]
    ELSE parts[1] \o sep \o JoinWith(Tail(parts), sep)

\* The text of a stamp: 20240115120000 or 2024-01-15T12:00:00, then .000 and
\* [-3:BRT] as given, between spaces when padded.
StampText(g) ==
    LET fields == [i \in 1..Len(g.time) |-> Pad2(g.time[i])]
        date == IF g.style = "basic" THEN Pad4(g.y) \o Pad2(g.mo) \o Pad2(g.d)
                ELSE JoinWith(<<Pad4(g.y), Pad2(g.mo), Pad2(g.d)>>, <<"-">>)
        time == IF g.style = "basic" THEN JoinWith(fields, <<>>)
                ELSE IF fields = <<>> THEN <<>>
                ELSE <<"T">> \o JoinWith(fields, <<":">>)
        tail == IF g.suffix = "none" THEN <<>>
                ELSE IF g.suffix = "zone" THEN ZoneBRT
                ELSE <<".", "0", "0", "0">> \o ZoneBRT
        body == date \o time \o tail
    IN  IF g.pad THEN <<" ">> \o body \o <<" ", " ">> ELSE body

\* The value written from what is given; a missing value has no text.
DateValueOf(g) ==
    IF g.kind = "stamp" THEN [present |-> TRUE, text |-> StampText(g)]
    ELSE IF g.kind = "missing" THEN [present |-> FALSE, text |-> <<>>]
    ELSE IF g.kind = "empty" THEN [present |-> TRUE, text |-> <<>>]
    ELSE IF g.kind = "blank" THEN [present |-> TRUE, text |-> <<" ", " ">>]
    ELSE IF g.kind = "text" THEN [present |-> TRUE, text |-> <<"n", "/", "a">>]
    ELSE [present |-> TRUE, text |-> ZoneBRT]

InitDate ==
    /\ date_given \in DateGivens
    /\ date_value = DateValueOf(date_given)
    /\ date_pc = "input"
    /\ date_result = None
    /\ MatchIdle
    /\ OfxIdle
    /\ KindIdle
    /\ CanonIdle
    /\ MoneyIdle
    /\ CleanIdle
    /\ FrIdle
    /\ CrIdle
    /\ GrpIdle
    /\ LoadIdle

\* A caller parses the value; None and "" both take the `if not value` return.
ParseOfxDate ==
    /\ date_pc = "input"
    /\ date_result' = _parse_ofx_date(IF date_value.present THEN date_value.text ELSE <<>>)
    /\ date_pc' = "parsed"
    /\ UNCHANGED <<date_given, date_value, not_date_vars>>

NextDate == ParseOfxDate

SpecDate == InitDate /\ [][NextDate]_vars

\* The calendar has the day.
ValidDate(y, mo, d) == y >= 1 /\ mo \in 1..12 /\ d >= 1 /\ d <= DaysIn(y, mo)

\* The timestamp of the longest of the 14-, 12- and 8-digit prefixes that the
\* given fields fill and that is a date and time; None when there is none.
ExpectedStamp(g) ==
    LET n == Len(g.time)
        ok == ValidDate(g.y, g.mo, g.d)
    IN  IF n >= 3 /\ ok /\ g.time[1] <= 23 /\ g.time[2] <= 59 /\ g.time[3] <= 59
        THEN Ts(g.y, g.mo, g.d, g.time[1], g.time[2], g.time[3])
        ELSE IF n >= 2 /\ ok /\ g.time[1] <= 23 /\ g.time[2] <= 59
        THEN Ts(g.y, g.mo, g.d, g.time[1], g.time[2], 0)
        ELSE IF ok THEN Ts(g.y, g.mo, g.d, 0, 0, 0)
        ELSE None

\* C11: _parse_ofx_date returns the timestamp of the first of the 14-, 12- and
\* 8-digit prefixes of the digits (the [timezone] suffix removed) that the
\* digits fill and that is a date and time, an invalid longer candidate giving
\* way to the next shorter one; an empty, blank or missing value gives the null
\* timestamp, and the result is always a timestamp or the null timestamp.
C11_FirstValidCandidate ==
    date_pc = "parsed" =>
        /\ IsTs(date_result) \/ date_result = NaT
        /\ date_given.kind \in {"missing", "empty", "blank"} => date_result = NaT
        /\ (date_given.kind = "stamp" /\ ExpectedStamp(date_given) # None)
               => date_result = ExpectedStamp(date_given)

\* Seconds out of range with a timezone suffix: the 14-digit candidate fails and
\* the 12-digit one gives the timestamp.
C11_Witness ==
    /\ date_pc = "parsed"
    /\ date_given.kind = "stamp"
    /\ date_given.time = <<12, 0, 60>>
    /\ date_given.suffix = "zone"
    /\ date_result = Ts(2024, 2, 29, 12, 0, 0)

(***************************************************************************)
(* detect_kind (main.py 73-86): the kind of an uploaded file, from its     *)
(* name and the first lines of its decoded text.                           *)
(***************************************************************************)
\* text.splitlines()[:20]
HeadLines == 20

DotOfx == <<".", "o", "f", "x">>

OfxTag == <<"<", "O", "F", "X">>

ContasPagasBanner == <<"R", "e", "l", "a", "t", "ó", "r", "i", "o", " ", "d", "e", " ", "C", "o", "n", "t", "a", "s", " ", "P", "a", "g", "a", "s">>

ReceberBanner == <<"R", "e", "l", "a", "t", "ó", "r", "i", "o", " ", "R", "e", "c", "e", "b", "e", "r", " ", "R", "e", "c", "e", "b", "i", "d", "o">>

SacadoSignature == <<"S", "a", "c", "a", "d", "o", ",", ",", ",", "N", "o", "s", "s", "o", " ", "N", "ú", "m", "e", "r", "o">>

SacadoPrefix == <<"S", "a", "c", "a", "d", "o", ",">>

Kinds == {"ofx", "contas_pagar", "contas_receber", "francesinha", "csv"}

\* lines[:n]
Take(lines, n) == SubSeq(lines, 1, IF Len(lines) < n THEN Len(lines) ELSE n)

\* The report banners looked for before the <OFX tag.
detect_kind_BannerFirst(name, text) ==
    LET lower_name == Lower(name)
        head == JoinLines(Take(SplitLines(text), HeadLines))
    IN  IF EndsWith(lower_name, DotOfx) THEN "ofx"
        ELSE IF Occurs(ContasPagasBanner, head) THEN "contas_pagar"
        ELSE IF Occurs(ReceberBanner, head) THEN "contas_receber"
        ELSE IF Occurs(OfxTag, Upper(head)) THEN "ofx"
        ELSE IF Occurs(SacadoSignature, head) \/ StartsWith(head, SacadoPrefix)
        THEN "francesinha"
        ELSE "csv"

detect_kind(name, text) ==
    LET lower_name == Lower(name)
        head == JoinLines(Take(SplitLines(text), HeadLines))
    IN  IF EndsWith(lower_name, DotOfx) THEN "ofx"
        ELSE IF Occurs(OfxTag, Upper(head)) THEN "ofx"
        ELSE IF Occurs(ContasPagasBanner, head) THEN "contas_pagar"
        ELSE IF Occurs(ReceberBanner, head) THEN "contas_receber"
        ELSE IF Occurs(SacadoSignature, head) \/ StartsWith(head, SacadoPrefix)
        THEN "francesinha"
        ELSE "csv"

(***************************************************************************)
(* Files for detect_kind: a name, a number of filler lines and then up to  *)
(* MaxMarks lines that carry a tag, a banner, a signature or none.         *)
(***************************************************************************)
MaxMarks == 2

FileNames ==
    {[text |-> <<"e", "x", "t", "r", "a", "t", "o", ".", "o", "f", "x">>, ofx |-> TRUE],
     [text |-> <<"E", "X", "T", "R", "A", "T", "O", ".", "O", "f", "x">>, ofx |-> TRUE],
     [text |-> <<"d", "a", "d", "o", "s", ".", "c", "s", "v">>, ofx |-> FALSE],
     [text |-> <<"o", "f", "x", ".", "t", "x", "t">>, ofx |-> FALSE]}

MarkKinds == {"tag_small", "tag_capital", "pagas", "receber", "signature", "prefix", "plain"}

MarkLine(kind) ==
    IF kind = "tag_small" THEN <<" ", "<", "o", "f", "x", ">">>
    ELSE IF kind = "tag_capital" THEN <<"<", "O", "F", "X", ">">>
    ELSE IF kind = "pagas" THEN <<",", "R", "e", "l", "a", "t", "ó", "r", "i", "o", " ", "d", "e", " ", "C", "o", "n", "t", "a", "s", " ", "P", "a", "g", "a", "s", ",">>
    ELSE IF kind = "receber" THEN <<"R", "e", "l", "a", "t", "ó", "r", "i", "o", " ", "R", "e", "c", "e", "b", "e", "r", " ", "R", "e", "c", "e", "b", "i", "d", "o">>
    ELSE IF kind = "signature" THEN <<"x", ",", "S", "a", "c", "a", "d", "o", ",", ",", ",", "N", "o", "s", "s", "o", " ", "N", "ú", "m", "e", "r", "o", ",", "S", "e", "u", " ", "N", "ú", "m", "e", "r", "o">>
    ELSE IF kind = "prefix" THEN <<"S", "a", "c", "a", "d", "o", ",", "V", "a", "l", "o", "r">>
    ELSE <<"D", "a", "t", "a", ",", "V", "a", "l", "o", "r">>

FillerLine == <<"x">>

\* The numbers of filler lines: the first mark on line 1, 20 or 21.
FillerCounts == {0, HeadLines - 1, HeadLines}

KindGivens == [name : FileNames, before : FillerCounts, marks : SeqsUpTo(MarkKinds, MaxMarks)]

KindTextOf(g) ==
    JoinLines([i \in 1..g.before |-> FillerLine]
              \o [i \in 1..Len(g.marks) |-> MarkLine(g.marks[i])])

InitKind ==
    /\ kind_given \in KindGivens
    /\ kind_name = kind_given.name.text
    /\ kind_text = KindTextOf(kind_given)
    /\ kind_pc = "input"
    /\ kind_result = "none"
    /\ MatchIdle
    /\ OfxIdle
    /\ DateIdle
    /\ CanonIdle
    /\ MoneyIdle
    /\ CleanIdle
    /\ FrIdle
    /\ CrIdle
    /\ GrpIdle
    /\ LoadIdle

\* load_preview asks for the kind of the decoded upload.
DetectKind ==
    /\ kind_pc = "input"
    /\ kind_result' = detect_kind(kind_name, kind_text)
    /\ kind_pc' = "done"
    /\ UNCHANGED <<kind_given, kind_name, kind_text, not_kind_vars>>

NextKind == DetectKind

SpecKind == InitKind /\ [][NextKind]_vars

\* The kinds of the marks on the first 20 lines.
MarksInHead(g) == {g.marks[i] : i \in {j \in 1..Len(g.marks) : g.before + j <= 20}}

\* The text begins with the prefix "Sacado,".
PrefixAtStart(g) == g.before = 0 /\ g.marks # <<>> /\ g.marks[1] \in {"prefix"}

ExpectedKind(g) ==
    IF g.name.ofx THEN "ofx"
    ELSE IF MarksInHead(g) \cap {"tag_small", "tag_capital"} # {} THEN "ofx"
    ELSE IF "pagas" \in MarksInHead(g) THEN "contas_pagar"
    ELSE IF "receber" \in MarksInHead(g) THEN "contas_receber"
    ELSE IF "signature" \in MarksInHead(g) \/ PrefixAtStart(g) THEN "francesinha"
    ELSE "csv"

\* C12: detect_kind answers ofx for a name ending in .ofx in any letter case,
\* whatever the text; otherwise ofx when <OFX occurs in any letter case on the
\* first 20 lines, even beside a banner; otherwise the accounts-payable banner,
\* then the accounts-receivable banner, then the boleto signature; otherwise
\* csv.  What stands after line 20 changes nothing, and the answer is one of
\* the five kinds.
C12_SnifferPriority ==
    kind_pc = "done" =>
        /\ kind_result \in Kinds
        /\ kind_result = ExpectedKind(kind_given)

\* The accounts-receivable banner on line 20 and the accounts-payable banner
\* on line 21.
C12_Witness ==
    /\ kind_pc = "done"
    /\ ~kind_given.name.ofx
    /\ kind_given.before = 19
    /\ kind_given.marks = <<"receber", "pagas">>
    /\ kind_result = "contas_receber"

\* A tag in small letters beside the accounts-payable banner, under a name
\* that is not .ofx.
C12_TagWitness ==
    /\ kind_pc = "done"
    /\ ~kind_given.name.ofx
    /\ kind_given.marks = <<"pagas", "tag_small">>
    /\ kind_given.before = 0
    /\ kind_result = "ofx"

(***************************************************************************)
(* canonicalize_columns (odontotech.py 11-86).  The column labels of a     *)
(* table are a sequence of texts; rename gives every column the name the   *)
(* mapping holds for its label.                                            *)
(***************************************************************************)
CANONICAL_COLUMNS ==
    (<<"c", "o", "d", "i", "g", "o", " ", "i", "n", "t", "e", "r", "n", "o">> :> <<"C", "o", "d", "i", "g", "o", " ", "I", "n", "t", "e", "r", "n", "o">>)
    @@ (<<"e", "m", "i", "s", "s", "a", "o">> :> <<"E", "m", "i", "s", "s", "ã", "o">>)
    @@ (<<"e", "m", "i", "s", "s", "ã", "o">> :> <<"E", "m", "i", "s", "s", "ã", "o">>)
    @@ (<<"v", "e", "n", "c", "t", "o">> :> <<"V", "e", "n", "c", "t", "o">>)
    @@ (<<"p", "a", "g", "t", "o">> :> <<"P", "a", "g", "t", "o">>)
    @@ (<<"d", "o", "c">> :> <<"D", "o", "c", ".">>)
    @@ (<<"h", "i", "s", "t", "o", "r", "i", "c", "o">> :> <<"H", "i", "s", "t", "o", "r", "i", "c", "o">>)
    @@ (<<"h", "i", "s", "t", "ó", "r", "i", "c", "o">> :> <<"H", "i", "s", "t", "o", "r", "i", "c", "o">>)
    @@ (<<"v", "a", "l", "o", "r">> :> <<"V", "a", "l", "o", "r">>)
    @@ (<<"c", "l", "a", "s", "s", "e">> :> <<"C", "L", "A", "S", "S", "E">>)
    @@ (<<"p", "a", "r", "c">> :> <<"P", "a", "r", "c", ".">>)
    @@ (<<"o", "r", "c", "a", "m", "e", "n", "t", "o">> :> <<"O", "r", "ç", "a", "m", "e", "n", "t", "o", ".">>)
    @@ (<<"o", "r", "ç", "a", "m", "e", "n", "t", "o">> :> <<"O", "r", "ç", "a", "m", "e", "n", "t", "o", ".">>)
    @@ (<<"f", "a", "t", " ", "a", "n", "t">> :> <<"F", "a", "t", ".", " ", "A", "n", "t", ".">>)
    @@ (<<"g", "e", "r", "a", "r", " ", "r", "p", "s">> :> <<"G", "e", "r", "a", "r", " ", "R", "P", "S">>)
    @@ (<<"n", "o", "m", "e", " ", "p", "l", "a", "n", "o">> :> <<"N", "o", "m", "e", " ", "P", "l", "a", "n", "o">>)
    @@ (<<"a", "d", "m", " ", "b", "e", "n", "e", "f">> :> <<"A", "D", "M", ".", "B", "e", "n", "e", "f", ".">>)
    @@ (<<"v", "a", "l", "o", "r", " ", "p", "p", "c", "n", "g">> :> <<"V", "a", "l", "o", "r", " ", "P", "P", "C", "N", "G">>)
    @@ (<<"v", "o", " ", "t", "i", "d">> :> <<"V", "O", " ", "T", "I", "D">>)
    @@ (<<"v", "i", "n", "d", "i", " ", "t", "i", "d">> :> <<"V", "I", "N", "D", "I", " ", "T", "I", "D">>)
    @@ (<<"f", "o", "r", "m", "a", " ", "d", "e", " ", "p", "a", "g", "a", "m", "e", "n", "t", "o">> :> <<"F", "o", "r", "m", "a", " ", "d", "e", " ", "P", "a", "g", "a", "m", "e", "n", "t", "o">>)
    @@ (<<"i", "d", " ", "b", "a", "n", "c", "o">> :> <<"I", "D", " ", "B", "a", "n", "c", "o">>)
    @@ (<<"n", " ", "b", "a", "n", "c", "o">> :> <<"N", "º", "B", "a", "n", "c", "o">>)
    @@ (<<"n", "o", " ", "b", "a", "n", "c", "o">> :> <<"N", "º", "B", "a", "n", "c", "o">>)
    @@ (<<"n", "º", "b", "a", "n", "c", "o">> :> <<"N", "º", "B", "a", "n", "c", "o">>)
    @@ (<<"n", "o", "m", "e", " ", "b", "a", "n", "c", "o">> :> <<"N", "o", "m", "e", " ", "B", "a", "n", "c", "o">>)
    @@ (<<"i", "d", " ", "c", "o", "n", "t", "a", " ", "c", "o", "r", "r", "e", "n", "t", "e">> :> <<"I", "D", " ", "C", "o", "n", "t", "a", " ", "C", "o", "r", "r", "e", "n", "t", "e">>)
    @@ (<<"h", "i", "s", "t", "o", "r", "i", "c", "o", "_", "2">> :> <<"H", "i", "s", "t", "ó", "r", "i", "c", "o">>)
    @@ (<<"c", "p", "f">> :> <<"C", "P", "F">>)
    @@ (<<"f", "o", "n", "e", "1">> :> <<"F", "o", "n", "e", "1">>)
    @@ (<<"f", "o", "n", "e", "2">> :> <<"F", "o", "n", "e", "2">>)
    @@ (<<"f", "o", "n", "e", "3">> :> <<"F", "o", "n", "e", "3">>)
    @@ (<<"f", "o", "n", "e", "4">> :> <<"F", "o", "n", "e", "4">>)
    @@ (<<"c", "e", "l", "u", "l", "a", "r">> :> <<"C", "e", "l", "u", "l", "a", "r">>)
    @@ (<<"r", "a", "z", "a", "o", " ", "s", "o", "c", "i", "a", "l">> :> <<"R", "a", "z", "ã", "o", " ", "S", "o", "c", "i", "a", "l">>)
    @@ (<<"r", "a", "z", "ã", "o", " ", "s", "o", "c", "i", "a", "l">> :> <<"R", "a", "z", "ã", "o", " ", "S", "o", "c", "i", "a", "l">>)

\* The base letter of each accented letter (NFKD without combining marks).
AccentBase ==
    [c \in {AccentedSmall[i] : i \in 1..Len(AccentedSmall)} |->
        <<"a", "c", "o", "u">>[IndexIn(AccentedSmall, c)]]
    @@ [c \in {AccentedCapital[i] : i \in 1..Len(AccentedCapital)} |->
        <<"A", "C", "O", "U">>[IndexIn(AccentedCapital, c)]]
    @@ ("º" :> "o")

_strip_accents(text) ==
    [i \in 1..Len(text) |-> IF text[i] \in DOMAIN AccentBase THEN AccentBase[text[i]] ELSE text[i]]

\* [\s\._\-\/] and \s
PunctuationOrSpace == {" ", "\t", "\n", ".", "_", "-", "/"}

WhiteSpace == {" ", "\t", "\n"}

RECURSIVE CollapseRuns(_, _, _)
\* re.sub(r"[...]+", " ", s) from position i on: one space for every run.
CollapseRuns(s, class, i) ==
    IF i > Len(s) THEN <<>>
    ELSE IF s[i] \in class
         THEN (IF i > 1 /\ s[i - 1] \in class THEN <<>> ELSE <<" ">>) \o CollapseRuns(s, class, i + 1)
         ELSE <<s[i]>> \o CollapseRuns(s, class, i + 1)

_normalize_key(text) ==
    LET t == Strip(Lower(_strip_accents(text)))
        u == CollapseRuns(t, PunctuationOrSpace, 1)
    IN  CollapseRuns(u, WhiteSpace, 1)

\* mapping.values()
Values(mapping) == {mapping[c] : c \in DOMAIN mapping}

RECURSIVE FreeSuffix(_, _, _)
\* The while loop: the first suffix from the given one on with base_suffix free.
FreeSuffix(base, taken, suffix) ==
    IF (base \o <<"_">> \o NatDigits(suffix)) \in taken
    THEN FreeSuffix(base, taken, suffix + 1)
    ELSE suffix

\* One turn of the loop over df.columns.
CanonStep(st, col) ==
    LET key == _normalize_key(col)
        found == key \in DOMAIN CANONICAL_COLUMNS /\ CANONICAL_COLUMNS[key] # <<>>
        target == IF found THEN CANONICAL_COLUMNS[key]
                  ELSE IF key = <<"h", "i", "s", "t", "o", "r", "i", "c", "o">> /\ <<"H", "i", "s", "t", "o", "r", "i", "c", "o">> \in st.seen_targets
                       THEN <<"H", "i", "s", "t", "ó", "r", "i", "c", "o">>
                       ELSE Strip(col)
        unique == IF target \in Values(st.mapping)
                  THEN target \o <<"_">> \o NatDigits(FreeSuffix(target, Values(st.mapping), 2))
                  ELSE target
    IN  [mapping |-> DictSet(st.mapping, col, unique),
         seen_targets |-> st.seen_targets \cup {unique}]

RECURSIVE CanonLoop(_, _, _)
CanonLoop(st, columns, i) ==
    IF i > Len(columns) THEN st ELSE CanonLoop(CanonStep(st, columns[i]), columns, i + 1)

\* df.rename(columns=mapping): the labels of the renamed table.
canonicalize_columns(columns) ==
    LET st == CanonLoop([mapping |-> EmptyDict, seen_targets |-> {}], columns, 1)
    IN  [i \in 1..Len(columns) |-> st.mapping[columns[i]]]

(***************************************************************************)
(* Header lists for canonicalize_columns: up to MaxHeaders labels, some    *)
(* equal, some differing in case, accent or surrounding spaces, one that   *)
(* looks like a suffixed name, some from the canonical vocabulary.         *)
(***************************************************************************)
MaxHeaders == 3

HeaderNames ==
    {<<"V", "a", "l", "o", "r">>, <<"v", "a", "l", "o", "r">>, <<" ", "V", "a", "l", "o", "r", " ">>, <<"V", "a", "l", "o", "r", "_", "2">>,
     <<"H", "i", "s", "t", "o", "r", "i", "c", "o">>, <<"H", "i", "s", "t", "ó", "r", "i", "c", "o">>, <<"D", "o", "c", ".">>, <<"D", "O", "C">>, <<"N", "º", "B", "a", "n", "c", "o">>}

InitCanon ==
    /\ canon_columns \in SeqsUpTo(HeaderNames, MaxHeaders)
    /\ canon_pc = "input"
    /\ canon_result = <<>>
    /\ canon_again = <<>>
    /\ MatchIdle
    /\ OfxIdle
    /\ DateIdle
    /\ KindIdle
    /\ MoneyIdle
    /\ CleanIdle
    /\ FrIdle
    /\ CrIdle
    /\ GrpIdle
    /\ LoadIdle

\* clean_odontotech_df standardizes the columns of the raw table.
CanonicalizeColumns ==
    /\ canon_pc = "input"
    /\ canon_result' = canonicalize_columns(canon_columns)
    /\ canon_pc' = "renamed"
    /\ UNCHANGED <<canon_columns, canon_again, not_canon_vars>>

\* The cleaned table is given to clean_odontotech_df once more.
CanonicalizeAgain ==
    /\ canon_pc = "renamed"
    /\ canon_again' = canonicalize_columns(canon_result)
    /\ canon_pc' = "again"
    /\ UNCHANGED <<canon_columns, canon_result, not_canon_vars>>

NextCanon == CanonicalizeColumns \/ CanonicalizeAgain

SpecCanon == InitCanon /\ [][NextCanon]_vars

Renamed == canon_pc \in {"renamed", "again"}

\* C13: the names canonicalize_columns gives are pairwise distinct and as many
\* as the source headers, whatever the headers (equal ones, ones that differ in
\* surrounding spaces, ones that look like a suffixed name).
C13_UniqueNames ==
    Renamed =>
        /\ Len(canon_result) = Len(canon_columns)
        /\ \A i, j \in 1..Len(canon_result) : i # j => canon_result[i] # canon_result[j]

\* The target of a header: the name it gets in a table of its own.
TargetOf(col) == canonicalize_columns(<<col>>)[1]

\* The positions whose header has the same target as the one at position i.
SameTarget(i) == {j \in 1..Len(canon_columns) : TargetOf(canon_columns[j]) = TargetOf(canon_columns[i])}

\* The names given before position i.
UsedBefore(i) == {canon_result[j] : j \in 1..(i - 1)}

Suffixed(base, suffix) == base \o <<"_">> \o NatDigits(suffix)

\* C14: of several headers with the same target T the first is named T and each
\* later one T_s, s the smallest suffix from 2 on not used by an earlier column.
C14_FirstSeenWins ==
    Renamed =>
        \A i \in 1..Len(canon_columns) :
            Cardinality(SameTarget(i)) >= 2 =>
                LET T == TargetOf(canon_columns[i])
                IN  IF \A j \in SameTarget(i) : j >= i
                    THEN canon_result[i] = T
                    ELSE \E s \in 2..(Len(canon_columns) + 1) :
                            /\ canon_result[i] = Suffixed(T, s)
                            /\ \A r \in 2..(s - 1) : Suffixed(T, r) \in UsedBefore(i)

\* The target values of CANONICAL_COLUMNS.
CanonicalVocabulary == {CANONICAL_COLUMNS[k] : k \in DOMAIN CANONICAL_COLUMNS}

\* C15: canonicalize_columns leaves a header list of canonical names as it is,
\* and leaves its own result as it is.
C15_Idempotent ==
    /\ (Renamed /\ \A i \in 1..Len(canon_columns) : canon_columns[i] \in CanonicalVocabulary)
           => canon_result = canon_columns
    /\ canon_pc = "again" => canon_again = canon_result

\* The positions of the headers whose normalized key is "historico".
HistoricoPositions == {i \in 1..Len(canon_columns) : _normalize_key(canon_columns[i]) = <<"h", "i", "s", "t", "o", "r", "i", "c", "o">>}

\* C16: of two headers with the normalized key "historico" the first is named
\* "Historico" and the second "Histórico".
C16_SecondHistorico ==
    (Renamed /\ Cardinality(HistoricoPositions) = 2) =>
        \A i, j \in HistoricoPositions :
            i < j => canon_result[i] = <<"H", "i", "s", "t", "o", "r", "i", "c", "o">> /\ canon_result[j] = <<"H", "i", "s", "t", "ó", "r", "i", "c", "o">>

RECURSIVE WordsOf(_, _, _, _)
\* The words of a header: its maximal runs of characters that are none of
\* ".", "_", "-", "/" and whitespace, from position i on.
WordsOf(s, i, word, words) ==
    LET closed == IF word = <<>> THEN words ELSE Append(words, word)
    IN  IF i > Len(s) THEN closed
        ELSE IF s[i] \in PunctuationOrSpace THEN WordsOf(s, i + 1, <<>>, closed)
        ELSE WordsOf(s, i + 1, Append(word, s[i]), words)

\* Two headers differ only in case, accents or separators.
SameWords(a, b) ==
    WordsOf(Lower(_strip_accents(a)), 1, <<>>, <<>>) = WordsOf(Lower(_strip_accents(b)), 1, <<>>, <<>>)

\* A key in normal form: lowercase, single spaces the only separators, none
\* of them at either end.
NormalKey(key) ==
    /\ key = Lower(key)
    /\ \A i \in 1..Len(key) : key[i] \in PunctuationOrSpace => key[i] = " "
    /\ \A i \in 1..(Len(key) - 1) : ~(key[i] = " " /\ key[i + 1] = " ")
    /\ key # <<>> => key[1] # " " /\ key[Len(key)] # " "

\* C28: the key of every header is lowercase, has one space for every run of
\* ".", "_", "-", "/" and whitespace and no space at either end, so headers
\* that differ only in case, accents or separators ("Doc.", "DOC") have the
\* same key and the same canonical target.
C28_KeyNormalization ==
    Renamed =>
        /\ \A i \in 1..Len(canon_columns) : NormalKey(_normalize_key(canon_columns[i]))
        /\ \A i, j \in 1..Len(canon_columns) :
               SameWords(canon_columns[i], canon_columns[j]) =>
                   /\ _normalize_key(canon_columns[i]) = _normalize_key(canon_columns[j])
                   /\ TargetOf(canon_columns[i]) = TargetOf(canon_columns[j])

(***************************************************************************)
(* _to_brazil_float (odontotech.py 89-101) and _convert_brl (main.py       *)
(* 42-50).  A column is [dtype, cells]: dtype "f" with numbers and NaN, or *)
(* dtype "O" with text cells Str(s), None and NaN.                         *)
(***************************************************************************)
\* str(x) of a float: at least one decimal.
FloatStr(v) == IF v.e = 0 THEN FormatDecimal(v, ".") \o <<".", "0">> ELSE FormatDecimal(v, ".")

\* astype(str) of one cell.
AsStr(cell) ==
    IF cell.k = "str" THEN cell.s
    ELSE IF cell.k = "num" THEN FloatStr(cell)
    ELSE IF cell.k = "None" THEN <<"N", "o", "n", "e">>
    ELSE <<"n", "a", "n">>

\* The texts replaced by pd.NA.
NaTexts == {<<>>, <<"n", "a", "n">>, <<"N", "o", "n", "e">>}

RECURSIVE RemoveThousandsDots(_, _)
\* re.sub(r"\.(?=\d{3}(\D|$))", "", s) from position i on: without every "."
\* that three digits and then no digit follow.
RemoveThousandsDots(s, i) ==
    IF i > Len(s) THEN <<>>
    ELSE IF /\ s[i] = "."
            /\ i + 3 <= Len(s)
            /\ IsDigit(s[i + 1]) /\ IsDigit(s[i + 2]) /\ IsDigit(s[i + 3])
            /\ (i + 4 > Len(s) \/ ~IsDigit(s[i + 4]))
         THEN RemoveThousandsDots(s, i + 1)
         ELSE <<s[i]>> \o RemoveThousandsDots(s, i + 1)

\* pd.to_numeric(errors="coerce") of one text.
ToNumericText(s) == ParseFloat(s)

\* _to_brazil_float on one cell of a column that is not numeric.
BrazilFloatCell(cell) ==
    LET s == Strip(AsStr(cell))
        kept == SelectSeq(s, LAMBDA c : IsDigit(c) \/ c \in {",", ".", "-"})
    IN  IF s \in NaTexts THEN NaN
        ELSE ToNumericText(ReplaceChar(RemoveThousandsDots(kept, 1), ",", "."))

_to_brazil_float(series) ==
    IF series.dtype \in {"f", "i"} THEN series.cells
    ELSE [i \in 1..Len(series.cells) |-> BrazilFloatCell(series.cells[i])]

\* _convert_brl on one cell.
ConvertBrlCell(cell) ==
    LET s == Strip(AsStr(cell))
        kept == SelectSeq(s, LAMBDA c : c # NBSP)
    IN  IF s \in NaTexts THEN NaN
        ELSE ToNumericText(ReplaceChar(RemoveThousandsDots(kept, 1), ",", "."))

_convert_brl(series) ==
    IF series.cells = <<>> THEN series.cells
    ELSE [i \in 1..Len(series.cells) |-> ConvertBrlCell(series.cells[i])]

(***************************************************************************)
(* Money columns: up to MaxCells cells, each written from a decimal in the *)
(* Brazilian style (comma for the decimals, with or without thousands      *)
(* dots), with a decimal point, or from no number; or a numeric column.    *)
(***************************************************************************)
MaxCells == 2

RECURSIVE GroupThousands(_)
\* The digits in groups of three from the right, a "." between the groups.
GroupThousands(ds) ==
    IF Len(ds) <= 3 THEN ds
    ELSE GroupThousands(SubSeq(ds, 1, Len(ds) - 3)) \o <<".">> \o SubSeq(ds, Len(ds) - 2, Len(ds))

\* A decimal in the Brazilian style: 1.234,56 or 1234,56.
FormatBrazil(v, grouped) ==
    LET abs == IF v.m < 0 THEN 0 - v.m ELSE v.m
        ds == PadLeft(NatDigits(abs), v.e + 1)
        int_part == SubSeq(ds, 1, Len(ds) - v.e)
    IN  (IF v.m < 0 THEN <<"-">> ELSE <<>>)
        \o (IF grouped THEN GroupThousands(int_part) ELSE int_part)
        \o (IF v.e > 0 THEN <<",">> \o SubSeq(ds, Len(ds) - v.e + 1, Len(ds)) ELSE <<>>)

Money(form, text, want) == [form |-> form, text |-> text, want |-> want]

\* "brazil": with a decimal comma; "grouped", "plain": an integer with and
\* without thousands dots; "point": with a decimal point and no comma.
BrazilOptions ==
    {Money("brazil", FormatBrazil(v, g), v) :
        v \in {Norm(123456, 2), Norm(-123456, 2), Norm(1234, 3), Norm(125, 3), Norm(125, 1),
               Norm(12345678, 1)},
        g \in BOOLEAN}
    \cup {Money("grouped", FormatBrazil(Norm(1234, 0), TRUE), Norm(1234, 0)),
          Money("plain", FormatBrazil(Norm(1234, 0), FALSE), Norm(1234, 0))}

PointOptions ==
    {Money("point", FormatDecimal(v, "."), v) :
        v \in {Norm(1234, 3), Norm(125, 3), Norm(125, 1), Norm(123456, 2)}}

InvalidOptions ==
    {Money("invalid", <<"a", "b", "c">>, NaN), Money("invalid", <<>>, NaN), Money("invalid", <<"-">>, NaN)}

TextOptions == BrazilOptions \cup PointOptions \cup InvalidOptions

NumericOptions == {Money("numeric", <<>>, v) : v \in {Norm(123456, 2), Norm(125, 3), NaN}}

MoneyGivens == SeqsUpTo(TextOptions, MaxCells) \cup (SeqsUpTo(NumericOptions, MaxCells) \ {<<>>})

\* The column written from what is given.
MoneySeriesOf(g) ==
    IF g # <<>> /\ g[1].form = "numeric"
    THEN [dtype |-> "f", cells |-> [i \in 1..Len(g) |-> g[i].want]]
    ELSE [dtype |-> "O", cells |-> [i \in 1..Len(g) |-> Str(g[i].text)]]

InitMoney ==
    /\ money_given \in MoneyGivens
    /\ money_series = MoneySeriesOf(money_given)
    /\ float_pc = "input"
    /\ float_result = <<>>
    /\ float_again = <<>>
    /\ brl_pc = "input"
    /\ brl_result = <<>>
    /\ brl_again = <<>>
    /\ MatchIdle
    /\ OfxIdle
    /\ DateIdle
    /\ KindIdle
    /\ CanonIdle
    /\ CleanIdle
    /\ FrIdle
    /\ CrIdle
    /\ GrpIdle
    /\ LoadIdle

\* The column of the texts of a converted column: str(x) of every cell.
TextsOf(cells) == [dtype |-> "O", cells |-> [i \in 1..Len(cells) |-> Str(AsStr(cells[i]))]]

ToBrazilFloat ==
    /\ float_pc = "input"
    /\ float_result' = _to_brazil_float(money_series)
    /\ float_pc' = "parsed"
    /\ UNCHANGED <<money_given, money_series, float_again, brl_pc, brl_result, brl_again, not_money_vars>>

ToBrazilFloatAgain ==
    /\ float_pc = "parsed"
    /\ float_again' = _to_brazil_float(TextsOf(float_result))
    /\ float_pc' = "again"
    /\ UNCHANGED <<money_given, money_series, float_result, brl_pc, brl_result, brl_again, not_money_vars>>

ConvertBrl ==
    /\ brl_pc = "input"
    /\ brl_result' = _convert_brl(money_series)
    /\ brl_pc' = "parsed"
    /\ UNCHANGED <<money_given, money_series, brl_again, float_pc, float_result, float_again, not_money_vars>>

ConvertBrlAgain ==
    /\ brl_pc = "parsed"
    /\ brl_again' = _convert_brl(TextsOf(brl_result))
    /\ brl_pc' = "again"
    /\ UNCHANGED <<money_given, money_series, brl_result, float_pc, float_result, float_again, not_money_vars>>

NextMoney == ToBrazilFloat \/ ToBrazilFloatAgain \/ ConvertBrl \/ ConvertBrlAgain

SpecMoney == InitMoney /\ [][NextMoney]_vars

CellPositions == 1..Len(money_given)

BrazilForms == {"brazil", "grouped", "plain"}

\* C17: for a cell written in the Brazilian style, converting the text of the
\* converted value gives the converted value again, and the cells of a numeric
\* column are returned as they are; by _to_brazil_float and by _convert_brl.
C17_StableReapplication ==
    /\ float_pc = "again" =>
           \A i \in CellPositions :
               money_given[i].form \in BrazilForms => float_again[i] = float_result[i]
    /\ brl_pc = "again" =>
           \A i \in CellPositions :
               money_given[i].form \in BrazilForms => brl_again[i] = brl_result[i]
    /\ (float_pc \in {"parsed", "again"} /\ money_series.dtype = "f")
           => float_result = money_series.cells
    /\ (brl_pc \in {"parsed", "again"} /\ money_series.dtype = "f")
           => brl_result = money_series.cells

\* The text has a "." and a ",".
BothSeparators(text) == Contains(text, ".") /\ Contains(text, ",")

\* C18: a text with a decimal point and no comma is converted with the "." as
\* the decimal point, and a text with thousands dots and a decimal comma to the
\* number it was written from; by _to_brazil_float and by _convert_brl.
C18_ThousandsRule ==
    \A i \in CellPositions :
        (\/ money_given[i].form = "point"
         \/ money_given[i].form = "brazil" /\ BothSeparators(money_given[i].text))
        => /\ float_pc \in {"parsed", "again"} => float_result[i] = money_given[i].want
           /\ brl_pc \in {"parsed", "again"} => brl_result[i] = money_given[i].want

(***************************************************************************)
(* clean_odontotech_df (odontotech.py 104-120, 178-220).  A table is       *)
(* [columns, rows]: the labels in order and, for every row, its cells in   *)
(* the order of the labels.  The columns of a raw table are of dtype       *)
(* object: text cells and NaN.                                             *)
(***************************************************************************)
Emissao == <<"E", "m", "i", "s", "s", "ã", "o">>

Vencto == <<"V", "e", "n", "c", "t", "o">>

Pagto == <<"P", "a", "g", "t", "o">>

Valor == <<"V", "a", "l", "o", "r">>

\* df[label] : the cells of the column, as a column of dtype object.
Column(df, label) ==
    [dtype |-> "O", cells |-> [i \in 1..Len(df.rows) |-> df.rows[i][IndexIn(df.columns, label)]]]

\* df[label] = cells
SetColumn(df, label, cells) ==
    [df EXCEPT !.rows = [i \in 1..Len(df.rows) |->
        [df.rows[i] EXCEPT ![IndexIn(df.columns, label)] = cells[i]]]]

\* df.empty
IsEmptyTable(df) == df.rows = <<>> \/ df.columns = <<>>

\* The mask of _drop_star_rows for one row.
Starred(row) == StartsWith(Strip(AsStr(row[1])), <<"*">>)

\* A mask taken on the first column as it is written, not trimmed.
_drop_star_rows_Untrimmed(df) ==
    IF IsEmptyTable(df) THEN [df |-> df, dropped |-> 0]
    ELSE [df |-> [df EXCEPT !.rows = SelectSeq(df.rows, LAMBDA row : ~StartsWith(AsStr(row[1]), <<"*">>))],
          dropped |-> Cardinality({i \in 1..Len(df.rows) : StartsWith(AsStr(df.rows[i][1]), <<"*">>)})]

_drop_star_rows(df) ==
    IF IsEmptyTable(df) THEN [df |-> df, dropped |-> 0]
    ELSE [df |-> [df EXCEPT !.rows = SelectSeq(df.rows, LAMBDA row : ~Starred(row))],
          dropped |-> Cardinality({i \in 1..Len(df.rows) : Starred(df.rows[i])})]

\* df[col].astype(str).str.strip() for every column of dtype object.
TrimStrings(df) ==
    [df EXCEPT !.rows = [i \in 1..Len(df.rows) |->
        [j \in 1..Len(df.rows[i]) |-> Str(Strip(AsStr(df.rows[i][j])))]]]

\* pd.to_datetime(errors="coerce", dayfirst=True) of one text: dd/mm/yyyy.
ToDatetimeDayFirst(s) ==
    IF /\ Len(s) = 10 /\ s[3] = "/" /\ s[6] = "/"
       /\ \A i \in {1, 2, 4, 5, 7, 8, 9, 10} : IsDigit(s[i])
    THEN LET d == DigitsValue(SubSeq(s, 1, 2))
             mo == DigitsValue(SubSeq(s, 4, 5))
             y == DigitsValue(SubSeq(s, 7, 10))
         IN  IF y >= 1 /\ mo >= 1 /\ mo <= 12 /\ d >= 1 /\ d <= DaysIn(y, mo)
             THEN Ts(y, mo, d, 0, 0, 0)
             ELSE NaT
    ELSE NaT

RECURSIVE _parse_dates(_, _)
_parse_dates(df, cols) ==
    IF cols = <<>> THEN df
    ELSE LET c == Head(cols)
             cells == Column(df, c).cells
         IN  _parse_dates(SetColumn(df, c, [i \in 1..Len(cells) |-> ToDatetimeDayFirst(AsStr(cells[i]))]),
                          Tail(cols))

\* Series.fillna(value)
FillNa(cells, value) == [i \in 1..Len(cells) |-> IF cells[i] = NaN THEN value ELSE cells[i]]

\* df["Valor"] = _to_brazil_float(df["Valor"]).fillna(0.0)
ParseValor(df) ==
    IF Contains(df.columns, Valor)
    THEN SetColumn(df, Valor, FillNa(_to_brazil_float(Column(df, Valor)), Zero))
    ELSE df

\* The steps of clean_odontotech_df that follow the renaming of the columns.
CleanRenamed(df_raw, renamed) ==
    LET starless == _drop_star_rows(renamed)
        trimmed == TrimStrings(starless.df)
        date_cols == SelectSeq(<<Emissao, Vencto, Pagto>>, LAMBDA c : Contains(trimmed.columns, c))
        dated == _parse_dates(trimmed, date_cols)
        df == ParseValor(dated)
    IN  [df |-> df,
         stats |-> [dropped_star_rows |-> starless.dropped,
                    initial_rows |-> Len(df_raw.rows),
                    final_rows |-> Len(df.rows),
                    parsed_dates |-> date_cols,
                    parsed_valor |-> Contains(df.columns, Valor)]]

clean_odontotech_df(df_raw) ==
    CleanRenamed(df_raw, [df_raw EXCEPT !.columns = canonicalize_columns(df_raw.columns)])

(***************************************************************************)
(* Raw ledger tables: a document, a payment date and an amount for each of *)
(* up to MaxRawRows rows, under headers as an export writes them, with or  *)
(* without the amount column.                                              *)
(***************************************************************************)
MaxRawRows == 2

DocOptions == {Str(<<"A", "1">>), Str(<<"A", "*">>), Str(<<" ", "*", "T", "o", "t", "a", "l">>)}

PagtoOptions == {Field("date", <<"1", "5", "/", "0", "1", "/", "2", "0", "2", "4">>, Ts(2024, 1, 15, 0, 0, 0)), Field("text", <<"a", "b", "c">>, NaT)}

\* An amount in the Brazilian style, a text that is no number, an empty cell.
ValorOptions ==
    {Money("brazil", FormatBrazil(Norm(123456, 2), TRUE), Norm(123456, 2)),
     Money("brazil", FormatBrazil(Norm(0, 0), FALSE), Norm(0, 0)),
     Money("invalid", <<"a", "b", "c">>, NaN),
     Money("empty", <<>>, NaN)}

RawRowGivens == [doc : DocOptions, pagto : PagtoOptions, valor : ValorOptions]

RawHeaders == {<<<<"D", "o", "c">>, <<"p", "a", "g", "t", "o">>, <<" ", "V", "A", "L", "O", "R", " ">>>>, <<<<"D", "o", "c">>, <<"p", "a", "g", "t", "o">>>>}

\* The cell of an amount: NaN for an empty cell of the file.
MoneyCell(opt) == IF opt.form = "empty" THEN NaN ELSE Str(opt.text)

RawRowOf(g, headers) ==
    IF Len(headers) = 3 THEN <<g.doc, Str(g.pagto.text), MoneyCell(g.valor)>>
    ELSE <<g.doc, Str(g.pagto.text)>>

InitClean ==
    /\ clean_given \in SeqsUpTo(RawRowGivens, MaxRawRows)
    /\ \E headers \in RawHeaders :
           clean_raw = [columns |-> headers,
                        rows |-> [i \in 1..Len(clean_given) |-> RawRowOf(clean_given[i], headers)]]
    /\ clean_pc = "input"
    /\ clean_df = [columns |-> <<>>, rows |-> <<>>]
    /\ clean_stats = None
    /\ MatchIdle
    /\ OfxIdle
    /\ DateIdle
    /\ KindIdle
    /\ CanonIdle
    /\ MoneyIdle
    /\ FrIdle
    /\ CrIdle
    /\ GrpIdle
    /\ LoadIdle

\* The ledger page cleans the raw table it has read.
CleanOdontotechDf ==
    /\ clean_pc = "input"
    /\ LET out == clean_odontotech_df(clean_raw)
       IN  /\ clean_df' = out.df
           /\ clean_stats' = out.stats
    /\ clean_pc' = "cleaned"
    /\ UNCHANGED <<clean_given, clean_raw, not_clean_vars>>

NextClean == CleanOdontotechDf

SpecClean == InitClean /\ [][NextClean]_vars

\* The rows given that are kept: those whose document has no leading star.
KeptGivens == SelectSeq(clean_given, LAMBDA g : g.doc # Str(<<" ", "*", "T", "o", "t", "a", "l">>))

HasValor == Len(clean_raw.columns) = 3

\* C19: a row whose amount is no number or is empty is kept, and its "Valor"
\* cell in the table clean_odontotech_df returns is null, not 0.
C19_InvalidMoneyIsNull ==
    (clean_pc = "cleaned" /\ HasValor) =>
        /\ Len(clean_df.rows) = Len(KeptGivens)
        /\ \A i \in 1..Len(KeptGivens) :
               KeptGivens[i].valor.form \in {"invalid", "empty"}
                   => Column(clean_df, Valor).cells[i] = NaN

\* The raw table as it was written from the rows given.
RawGiven(headers) ==
    [columns |-> headers, rows |-> [i \in 1..Len(clean_given) |-> RawRowOf(clean_given[i], headers)]]

\* C30: clean_odontotech_df removes the rows whose first cell, trimmed, starts
\* with "*" and no other row: initial_rows = dropped_star_rows + final_rows,
\* final_rows is the number of rows returned, the rows kept are in their
\* original order, and the raw table is as it was.
C30_StatsConserved ==
    clean_pc = "cleaned" =>
        /\ clean_stats.initial_rows = Len(clean_given)
        /\ clean_stats.dropped_star_rows = Len(clean_given) - Len(KeptGivens)
        /\ clean_stats.initial_rows = clean_stats.dropped_star_rows + clean_stats.final_rows
        /\ clean_stats.final_rows = Len(clean_df.rows)
        /\ Len(clean_df.rows) = Len(KeptGivens)
        /\ \A i \in 1..Len(KeptGivens) :
               /\ clean_df.rows[i][1] = Str(Strip(KeptGivens[i].doc.s))
               /\ clean_df.rows[i][2] = KeptGivens[i].pagto.want
        /\ \E headers \in RawHeaders : clean_raw = RawGiven(headers)

\* A starred row is dropped and the row after it, with a star that is not at
\* its start, is kept.
C30_Witness ==
    /\ clean_pc = "cleaned"
    /\ Len(clean_given) = 2
    /\ clean_given[1].doc = Str(<<" ", "*", "T", "o", "t", "a", "l">>)
    /\ clean_stats.dropped_star_rows = 1
    /\ clean_stats.final_rows = 1
    /\ clean_df.rows[1][1] = Str(<<"A", "*">>)

(***************************************************************************)
(* read_francesinha_from_text (main.py 89-146): the boleto report.  A row  *)
(* of the loop is a dict: [keys, vals], the names in the order they were   *)
(* first set and the value of each.                                        *)
(***************************************************************************)
\* The byte order mark, U+FEFF.
BOM == "﻿"

skip_prefixes ==
    <<<<"O", "r", "d", "e", "n", "a", "d", "o", " ", "p", "o", "r">>, <<"G", "e", "r", "a", "d", "o", " ", "e", "m">>, <<"R", "e", "l", "a", "t", "ó", "r", "i", "o">>,
      <<"C", "e", "d", "e", "n", "t", "e">>, <<"T", "i", "p", "o", " ", "C", "o", "n", "s", "u", "l", "t", "a">>,
      <<"C", "o", "n", "t", "a", " ", "C", "o", "r", "r", "e", "n", "t", "e">>>>

skip_contains ==
    <<<<"T", "o", "t", "a", "l", " ", "d", "e", " ", "V", "a", "l", "o", "r", "e", "s">>,
      <<"T", "o", "t", "a", "l", " ", "d", "e", " ", "R", "e", "g", "i", "s", "t", "r", "o", "s">>,
      <<"T", "o", "t", "a", "l", " ", "G", "e", "r", "a", "l">>>>

Sacado == <<"S", "a", "c", "a", "d", "o">>

RECURSIVE LStripChar(_, _)
\* s.lstrip(c)
LStripChar(s, c) == IF s # <<>> /\ Head(s) = c THEN LStripChar(Tail(s), c) ELSE s

\* s.split(c, 1)[0]
FirstCell(s, c) == IF Contains(s, c) THEN BeforeFirst(s, c) ELSE s

\* re.match(r"^\d{1,2}-", s)
DateLikeToken(s) ==
    \/ Len(s) >= 2 /\ IsDigit(s[1]) /\ s[2] = "-"
    \/ Len(s) >= 3 /\ IsDigit(s[1]) /\ IsDigit(s[2]) /\ s[3] = "-"

\* The reader of one line in the excel dialect, character by character: the
\* fields closed so far, the field being read and the state of the reader.
CsvStart == [fields |-> <<>>, field |-> <<>>, mode |-> "start"]

CsvChar(st, c) ==
    IF st.mode = "start"
    THEN IF c = "\"" THEN [st EXCEPT !.mode = "quoted"]
         ELSE IF c = "," THEN [st EXCEPT !.fields = @ \o <<st.field>>, !.field = <<>>]
         ELSE [st EXCEPT !.field = @ \o <<c>>, !.mode = "field"]
    ELSE IF st.mode = "field"
    THEN IF c = "," THEN [fields |-> st.fields \o <<st.field>>, field |-> <<>>, mode |-> "start"]
         ELSE [st EXCEPT !.field = @ \o <<c>>]
    ELSE IF st.mode = "quoted"
    THEN IF c = "\"" THEN [st EXCEPT !.mode = "quote"]
         ELSE [st EXCEPT !.field = @ \o <<c>>]
    ELSE IF c = "\"" THEN [st EXCEPT !.field = @ \o <<c>>, !.mode = "quoted"]
         ELSE IF c = "," THEN [fields |-> st.fields \o <<st.field>>, field |-> <<>>, mode |-> "start"]
         ELSE [st EXCEPT !.field = @ \o <<c>>, !.mode = "field"]

RECURSIVE CsvChars(_, _, _)
CsvChars(st, line, i) ==
    IF i > Len(line) THEN st ELSE CsvChars(CsvChar(st, line[i]), line, i + 1)

\* next(csv.reader([line])): the cells of one line; none for an empty line.
CsvRow(line) ==
    IF line = <<>> THEN <<>>
    ELSE LET st == CsvChars(CsvStart, line, 1) IN st.fields \o <<st.field>>

\* stripped, normalized and first_cell of a line (main.py 95-100).
Stripped(raw) == Strip(LStripChar(raw, BOM))

Normalized(raw) == Strip(LStripChar(Stripped(raw), ","))

FirstCellOf(raw) == Strip(FirstCell(Normalized(raw), ","))

\* if not stripped (main.py 97)
BlankLine(raw) == Stripped(raw) = <<>>

\* The first cell starts with one of skip_prefixes (main.py 101).
BannerLine(raw) == \E p \in 1..Len(skip_prefixes) : StartsWith(FirstCellOf(raw), skip_prefixes[p])

\* first_cell.endswith(":") (main.py 103)
LabelLine(raw) == EndsWith(FirstCellOf(raw), <<":">>)

\* One of skip_contains occurs in the line (main.py 105).
FooterLine(raw) == \E t \in 1..Len(skip_contains) : Occurs(skip_contains[t], Normalized(raw))

\* The first cell starts with one or two digits and a hyphen (main.py 107).
DateLikeLine(raw) == DateLikeToken(FirstCellOf(raw))

\* The line is left out without the rule for a first cell ending with ":".
SkippedLine_NoLabel(raw) ==
    BlankLine(raw) \/ BannerLine(raw) \/ FooterLine(raw) \/ DateLikeLine(raw)

\* The line is left out before it is parsed (main.py 95-108).
SkippedLine(raw) ==
    BlankLine(raw) \/ BannerLine(raw) \/ LabelLine(raw) \/ FooterLine(raw) \/ DateLikeLine(raw)

\* parsed padded with its last cell instead of "".
Reconcile_PadWithLast(parsed, header) ==
    [idx \in 1..Len(header) |-> IF idx <= Len(parsed) THEN parsed[idx] ELSE parsed[Len(parsed)]]

\* parsed brought to the length of the header: padded with "" or cut
\* (main.py 115-118).
Reconcile(parsed, header) ==
    [idx \in 1..Len(header) |-> IF idx <= Len(parsed) THEN parsed[idx] ELSE <<>>]

EmptyRow == [keys |-> <<>>, vals |-> EmptyDict]

\* row[name] = value
RowSet(row, name, value) ==
    [keys |-> IF name \in DOMAIN row.vals THEN row.keys ELSE row.keys \o <<name>>,
     vals |-> DictSet(row.vals, name, value)]

RECURSIVE BuildRow(_, _, _, _)
\* The loop over enumerate(header) from idx on (main.py 120-125).
BuildRow(row, header, parsed, idx) ==
    IF idx > Len(header) THEN row
    ELSE LET name == Strip(header[idx])
             value == IF idx <= Len(parsed) THEN Strip(parsed[idx]) ELSE <<>>
         IN  BuildRow(IF name = <<>> THEN row ELSE RowSet(row, name, value), header, parsed, idx + 1)

LoopStart == [has_header |-> FALSE, header |-> <<>>, rows |-> <<>>]

\* One turn of the loop, a header line starting the rows afresh.
FrancesinhaLine_RowsPerHeader(st, raw) ==
    IF SkippedLine(raw) THEN st
    ELSE LET parsed == CsvRow(LStripChar(raw, BOM))
         IN  IF parsed # <<>> /\ StartsWith(Strip(parsed[1]), Sacado)
             THEN [has_header |-> TRUE, header |-> parsed, rows |-> <<>>]
             ELSE IF ~st.has_header THEN st
             ELSE LET row == BuildRow(EmptyRow, st.header, Reconcile(parsed, st.header), 1)
                  IN  IF row.keys # <<>> THEN [st EXCEPT !.rows = @ \o <<row>>] ELSE st

\* One turn of the loop over text.splitlines() (main.py 94-127).
FrancesinhaLine(st, raw) ==
    IF SkippedLine(raw) THEN st
    ELSE LET parsed == CsvRow(LStripChar(raw, BOM))
         IN  IF parsed # <<>> /\ StartsWith(Strip(parsed[1]), Sacado)
             THEN [st EXCEPT !.has_header = TRUE, !.header = parsed]
             ELSE IF ~st.has_header THEN st
             ELSE LET row == BuildRow(EmptyRow, st.header, Reconcile(parsed, st.header), 1)
                  IN  IF row.keys # <<>> THEN [st EXCEPT !.rows = @ \o <<row>>] ELSE st

RECURSIVE FrancesinhaLines(_, _, _)
FrancesinhaLines(st, lines, i) ==
    IF i > Len(lines) THEN st ELSE FrancesinhaLines(FrancesinhaLine(st, lines[i]), lines, i + 1)

\* rows at main.py 128.
FrancesinhaRows(text) == FrancesinhaLines(LoopStart, SplitLines(text), 1).rows

FrStrCols == <<<<"S", "a", "c", "a", "d", "o">>, <<"N", "o", "s", "s", "o", " ", "N", "ú", "m", "e", "r", "o">>, <<"S", "e", "u", " ", "N", "ú", "m", "e", "r", "o">>>>

FrMoneyCols ==
    <<<<"V", "a", "l", "o", "r", " ", "(", "R", "$", ")">>, <<"V", "l", "r", ".", " ", "M", "o", "r", "a">>, <<"V", "l", "r", ".", " ", "D", "e", "s", "c", ".">>,
      <<"V", "l", "r", ".", " ", "O", "u", "t", "r", "o", "s", " ", "A", "c", "r", "e", "s", "c", ".">>,
      <<"V", "l", "r", ".", " ", "B", "a", "i", "x", "a", "d", "o">>, <<"V", "l", "r", ".", " ", "C", "o", "b", "r", "a", "d", "o">>>>

FrDateCols ==
    <<<<"D", "t", ".", " ", "P", "r", "e", "v", "i", "s", "ã", "o", " ", "C", "r", "é", "d", "i", "t", "o">>,
      <<"V", "e", "n", "c", "i", "m", "e", "n", "t", "o">>, <<"D", "t", ".", " ", "L", "i", "m", "i", "t", "e", " ", "P", "g", "t", "o">>,
      <<"D", "t", ".", " ", "B", "a", "i", "x", "a">>, <<"D", "t", ".", " ", "L", "i", "q", "u", "i", "d", ".">>>>

RECURSIVE FirstSeenKeys(_, _)
\* The columns of pd.DataFrame(rows): the keys in the order they first occur.
FirstSeenKeys(rows, seen) ==
    IF rows = <<>> THEN seen
    ELSE FirstSeenKeys(Tail(rows),
                       seen \o SelectSeq(Head(rows).keys, LAMBDA k : ~Contains(seen, k)))

\* pd.DataFrame(rows): NaN where a row has no value for a column.
FrameOf(rows) ==
    LET columns == FirstSeenKeys(rows, <<>>)
    IN  [columns |-> columns,
         rows |-> [i \in 1..Len(rows) |->
                     [j \in 1..Len(columns) |->
                         IF columns[j] \in DOMAIN rows[i].vals THEN Str(rows[i].vals[columns[j]])
                         ELSE NaN]]]

\* df[col].str.strip() on every column of dtype object.
_strip_object_columns(df) ==
    [df EXCEPT !.rows = [i \in 1..Len(df.rows) |->
        [j \in 1..Len(df.rows[i]) |->
            IF df.rows[i][j].k = "str" THEN Str(Strip(df.rows[i][j].s)) ELSE df.rows[i][j]]]]

RECURSIVE _strip_strings(_, _)
_strip_strings(df, cols) ==
    IF cols = <<>> THEN df
    ELSE LET cells == Column(df, Head(cols)).cells
         IN  _strip_strings(SetColumn(df, Head(cols),
                                      [i \in 1..Len(cells) |-> Str(Strip(AsStr(cells[i])))]),
                            Tail(cols))

RECURSIVE ConvertMoneyCols(_, _)
\* for col in money_cols: df[col] = _convert_brl(df[col])
ConvertMoneyCols(df, cols) ==
    IF cols = <<>> THEN df
    ELSE ConvertMoneyCols(SetColumn(df, Head(cols), _convert_brl(Column(df, Head(cols)))), Tail(cols))

\* The columns of the list that the table has.
Present(df, cols) == SelectSeq(cols, LAMBDA c : Contains(df.columns, c))

read_francesinha_from_text(text) ==
    LET rows == FrancesinhaRows(text)
        stripped == _strip_strings(_strip_object_columns(FrameOf(rows)),
                                   Present(FrameOf(rows), FrStrCols))
        converted == ConvertMoneyCols(stripped, Present(stripped, FrMoneyCols))
    IN  IF rows = <<>> THEN [columns |-> <<>>, rows |-> <<>>]
        ELSE _parse_dates(converted, Present(converted, FrDateCols))

(***************************************************************************)
(* Boleto reports: up to MaxReportLines lines, each a header line, a data  *)
(* line with fewer, as many or more cells than a header, a line left out  *)
(* as a banner, a footer, a blank or a date-like line ("skip"), or a line  *)
(* whose first cell is a label ending with ":".  cells are the cells the   *)
(* line was written from.                                                  *)
(***************************************************************************)
MaxReportLines == 3

ReportLine(kind, text, cells) == [kind |-> kind, text |-> text, cells |-> cells]

ReportLineOptions ==
    {ReportLine("header", <<"S", "a", "c", "a", "d", "o", ",", ",", " ", "V", "a", "l", "o", "r", " ", "(", "R", "$", ")", " ">>, <<<<"S", "a", "c", "a", "d", "o">>, <<>>, <<" ", "V", "a", "l", "o", "r", " ", "(", "R", "$", ")", " ">>>>),
     ReportLine("header", <<BOM>> \o <<"S", "a", "c", "a", "d", "o", ",", "V", "e", "n", "c", "i", "m", "e", "n", "t", "o">>, <<<<"S", "a", "c", "a", "d", "o">>, <<"V", "e", "n", "c", "i", "m", "e", "n", "t", "o">>>>),
     ReportLine("header", <<"S", "a", "c", "a", "d", "o", ",", "D", "t", ".", " ", "B", "a", "i", "x", "a", ",", "D", "t", ".", " ", "B", "a", "i", "x", "a">>, <<<<"S", "a", "c", "a", "d", "o">>, <<"D", "t", ".", " ", "B", "a", "i", "x", "a">>, <<"D", "t", ".", " ", "B", "a", "i", "x", "a">>>>),
     ReportLine("data", <<"A", "n", "a">>, <<<<"A", "n", "a">>>>),
     ReportLine("data", <<"A", "n", "a", ",", " ", "x", " ", ",", "\"", "1", ".", "2", "3", "4", ",", "5", "6", "\"">>, <<<<"A", "n", "a">>, <<" ", "x", " ">>, <<"1", ".", "2", "3", "4", ",", "5", "6">>>>),
     ReportLine("data", <<"\"", "S", "i", "l", "v", "a", ",", " ", "A", "n", "a", "\"", ",", ",", "\"", "0", ",", "5", "0", "\"", ",", "e", "x", "t", "r", "a">>, <<<<"S", "i", "l", "v", "a", ",", " ", "A", "n", "a">>, <<>>, <<"0", ",", "5", "0">>, <<"e", "x", "t", "r", "a">>>>),
     ReportLine("skip", <<"R", "e", "l", "a", "t", "ó", "r", "i", "o", " ", "d", "e", " ", "T", "í", "t", "u", "l", "o", "s">>, <<>>),
     ReportLine("skip", <<"x", ",", "T", "o", "t", "a", "l", " ", "G", "e", "r", "a", "l">>, <<>>),
     ReportLine("skip", <<" ", " ">>, <<>>),
     ReportLine("skip", <<"1", "2", "-", "0", "3", ",", "x">>, <<>>),
     ReportLine("label", <<"C", "a", "r", "t", "e", "i", "r", "a", ":", ",", "1", "7">>, <<>>)}

ReportGivens == SeqsUpTo(ReportLineOptions, MaxReportLines)

InitFr ==
    /\ fr_given \in ReportGivens
    /\ fr_text = JoinLines([i \in 1..Len(fr_given) |-> fr_given[i].text])
    /\ fr_pc = "input"
    /\ fr_rows = <<>>
    /\ fr_frame = [columns |-> <<>>, rows |-> <<>>]
    /\ MatchIdle
    /\ OfxIdle
    /\ DateIdle
    /\ KindIdle
    /\ CanonIdle
    /\ MoneyIdle
    /\ CleanIdle
    /\ CrIdle
    /\ GrpIdle
    /\ LoadIdle

\* load_preview reads an upload of the kind francesinha.
ReadFrancesinha ==
    /\ fr_pc = "input"
    /\ fr_rows' = FrancesinhaRows(fr_text)
    /\ fr_frame' = read_francesinha_from_text(fr_text)
    /\ fr_pc' = "read"
    /\ UNCHANGED <<fr_given, fr_text, not_fr_vars>>

NextFr == ReadFrancesinha

SpecFr == InitFr /\ [][NextFr]_vars

\* The positions of the header lines before position i.
HeadersBefore(i) == {j \in 1..(i - 1) : fr_given[j].kind = "header"}

\* The positions of the data lines that have a header line before them.
DataPositions == {i \in 1..Len(fr_given) : fr_given[i].kind = "data" /\ HeadersBefore(i) # {}}

\* The cells of the header in force at position i: the last header line before it.
HeaderAt(i) == fr_given[CHOOSE j \in HeadersBefore(i) : \A k \in HeadersBefore(i) : k <= j].cells

\* The position of the data line the n-th row was made of.
DataPosition(n) == CHOOSE i \in DataPositions : Cardinality({j \in DataPositions : j <= i}) = n

\* C20: every data line after a header gives one row; the row has one value
\* for each non-empty name of the header, and no other: the text, without the
\* spaces around it, of the cell at the position of the name (the last one
\* when the header has the name twice), or "" when the line has no cell
\* there; cells beyond the header are left out.
C20_LengthReconciliation ==
    fr_pc = "read" =>
        /\ Len(fr_rows) = Cardinality(DataPositions)
        /\ \A n \in 1..Len(fr_rows) :
               LET header == HeaderAt(DataPosition(n))
                   cells == fr_given[DataPosition(n)].cells
                   named == {j \in 1..Len(header) : Strip(header[j]) # <<>>}
                   last == {j \in named : \A k \in named : k > j => Strip(header[k]) # Strip(header[j])}
               IN  /\ DOMAIN fr_rows[n].vals = {Strip(header[j]) : j \in named}
                   /\ Len(fr_rows[n].keys) = Cardinality(DOMAIN fr_rows[n].vals)
                   /\ \A j \in last :
                          fr_rows[n].vals[Strip(header[j])] =
                              (IF j <= Len(cells) THEN Strip(cells[j]) ELSE <<>>)

\* Under a header of three cells, a line of one cell and a line of four cells.
C20_Witness ==
    /\ fr_pc = "read"
    /\ Len(fr_given) = 3
    /\ fr_given[1].kind = "header" /\ Len(fr_given[1].cells) = 3
    /\ fr_given[2].kind = "data" /\ Len(fr_given[2].cells) = 1
    /\ fr_given[3].kind = "data" /\ Len(fr_given[3].cells) = 4
    /\ Len(fr_rows) = 2
    /\ fr_rows[1].vals[<<"V", "a", "l", "o", "r", " ", "(", "R", "$", ")">>] = <<>>
    /\ fr_rows[2].vals[<<"V", "a", "l", "o", "r", " ", "(", "R", "$", ")">>] = <<"0", ",", "5", "0">>

\* The lines of the report, as the loop sees them.
ReportLines == SplitLines(fr_text)

\* parsed[0].strip().startswith("Sacado") on a line that reaches the reader
\* (main.py 109-110).
SacadoLine(raw) ==
    /\ ~SkippedLine(raw)
    /\ CsvRow(LStripChar(raw, BOM)) # <<>>
    /\ StartsWith(Strip(CsvRow(LStripChar(raw, BOM))[1]), Sacado)

\* The positions of the lines that are no header lines.
NonHeaderLines == {i \in 1..Len(ReportLines) : ~SacadoLine(ReportLines[i])}

\* The positions of the lines left out as blank, banner, footer or date-like.
ListedSkips == {i \in 1..Len(ReportLines) : SkippedLine_NoLabel(ReportLines[i])}

\* The positions of the lines left out only for a first cell ending with ":".
LabelSkips == {i \in 1..Len(ReportLines) : SkippedLine(ReportLines[i])} \ ListedSkips

\* The positions of the lines that reach the reader before any header line.
BeforeHeader ==
    {i \in NonHeaderLines \ (ListedSkips \cup LabelSkips) :
        \A j \in 1..(i - 1) : ~SacadoLine(ReportLines[j])}

\* C21 as stated: the rows of the table and the lines left out as blank,
\* banner, footer or date-like add up to the lines that are no header lines.
C21_RowCountConservation ==
    fr_pc = "read" =>
        Len(fr_frame.rows) + Cardinality(ListedSkips) = Cardinality(NonHeaderLines)

\* C21 amended: the rows of the table, the lines left out as blank, banner,
\* footer or date-like, the lines left out for a first cell ending with ":"
\* and the lines read before the first header line add up to the lines that
\* are no header lines.
C21_RowCountConservation_Amended ==
    fr_pc = "read" =>
        Len(fr_frame.rows) + Cardinality(ListedSkips) + Cardinality(LabelSkips)
            + Cardinality(BeforeHeader) = Cardinality(NonHeaderLines)

\* A data line before the header, and a label line and a data line after it.
C21_Witness ==
    /\ fr_pc = "read"
    /\ Len(fr_given) = 3
    /\ fr_given[1].kind = "header"
    /\ fr_given[2].kind = "label"
    /\ fr_given[3].kind = "data"
    /\ Len(fr_frame.rows) = 1
    /\ Cardinality(LabelSkips) = 1

\* A data line read before the header gives no row.
C21_BeforeHeaderWitness ==
    /\ fr_pc = "read"
    /\ Len(fr_given) = 3
    /\ fr_given[1].kind = "data"
    /\ fr_given[2].kind = "header"
    /\ fr_given[3].kind = "data"
    /\ Len(fr_frame.rows) = 1
    /\ BeforeHeader = {1}

\* The cells of the first header line of the report.
FirstHeader ==
    fr_given[CHOOSE j \in HeadersBefore(Len(fr_given) + 1) :
                 \A k \in HeadersBefore(Len(fr_given) + 1) : j <= k].cells

\* C22: every row of the output has the names of the first line whose first
\* cell starts with "Sacado", whatever lines of that kind come after it.
C22_FirstHeaderKept ==
    fr_pc = "read" =>
        \A n \in 1..Len(fr_rows) :
            DOMAIN fr_rows[n].vals =
                {Strip(FirstHeader[j]) : j \in {k \in 1..Len(FirstHeader) : Strip(FirstHeader[k]) # <<>>}}

(***************************************************************************)
(* read_contas_pagar_from_text (main.py 150-199) and                       *)
(* read_contas_receber_from_text (main.py 205-259): the accounts reports.  *)
(***************************************************************************)
PagarSkipPrefixes ==
    <<ContasPagasBanner,
      <<"P", "e", "r", "í", "o", "d", "o", " ", "I", "n", "i", "c", "i", "a", "l">>,
      <<"P", "e", "r", "í", "o", "d", "o", " ", "F", "i", "n", "a", "l">>,
      <<"C", "o", "m", " ", "p", "o", "s", "i", "ç", "ã", "o", " ", "e", "m">>>>

PagarSignature == <<"C", "o", "d", "i", "g", "o", ";", "P", "a", "g", "a", "m", "e", "n", "t", "o", ";", "C", "l", "a", "s", "s", "e", " ", "F", "i", "n", "a", "n", "c", "e", "i", "r", "a", ";">>

TipoPrefix == <<"T", "i", "p", "o", ":", " ">>

SubtotalPrefix == <<"*", "*", " ", "S", "u", "b", "t", "o", "t", "a", "l">>

PagamentoPrefix == <<"*", "*", " ", "P", "a", "g", "a", "m", "e", "n", "t", "o">>

ReceberSignature == <<"C", "o", "d", "i", "g", "o", " ", "I", "n", "t", "e", "r", "n", "o", ";">>

\* DATE_RANGE_PATTERN.match(s): dd/mm/yyyy a dd/mm/yyyy; at the start of s.
DATE_RANGE_PATTERN(s) ==
    /\ Len(s) >= 24
    /\ \A i \in {1, 2, 4, 5, 7, 8, 9, 10, 14, 15, 17, 18, 20, 21, 22, 23} : IsDigit(s[i])
    /\ \A i \in {3, 6, 16, 19} : s[i] = "/"
    /\ s[11] = " " /\ s[12] = "a" /\ s[13] = " "
    /\ s[24] = ";"

\* The line is one of the banner lines of the accounts-payable report.
PagarSkip(stripped) ==
    \E p \in 1..Len(PagarSkipPrefixes) : StartsWith(stripped, PagarSkipPrefixes[p])

\* The line is one of the lines the accounts-receivable parser leaves out.
ReceberSkip(stripped) ==
    \/ StartsWith(stripped, ReceberBanner)
    \/ DATE_RANGE_PATTERN(stripped)
    \/ StartsWith(stripped, TipoPrefix)
    \/ StartsWith(stripped, SubtotalPrefix)
    \/ StartsWith(stripped, PagamentoPrefix)

CleanStart == [header_seen |-> FALSE, output_lines |-> <<>>]

\* One turn of the loop, every header line kept.
KeepLine_EveryHeader(st, raw, banner, header) ==
    LET line == LStripChar(raw, BOM)
    IN  IF Strip(line) = <<>> \/ banner THEN st
        ELSE [header_seen |-> st.header_seen \/ header, output_lines |-> st.output_lines \o <<line>>]

\* One turn of the loop over text.splitlines(): banner tells that the line
\* starts with a banner prefix, header that it starts with the signature.
KeepLine(st, raw, banner, header) ==
    LET line == LStripChar(raw, BOM)
    IN  IF Strip(line) = <<>> \/ banner THEN st
        ELSE IF header /\ st.header_seen THEN st
        ELSE [header_seen |-> st.header_seen \/ header, output_lines |-> st.output_lines \o <<line>>]

RECURSIVE PagarLines(_, _, _)
\* The loop of read_contas_pagar_from_text from line i on (main.py 159-172).
PagarLines(st, lines, i) ==
    IF i > Len(lines) THEN st.output_lines
    ELSE PagarLines(KeepLine(st, lines[i], PagarSkip(Stripped(lines[i])),
                             StartsWith(Stripped(lines[i]), PagarSignature)),
                    lines, i + 1)

RECURSIVE ReceberLines(_, _, _)
\* The loop of read_contas_receber_from_text from line i on (main.py 208-229).
ReceberLines(st, lines, i) ==
    IF i > Len(lines) THEN st.output_lines
    ELSE ReceberLines(KeepLine(st, lines[i], ReceberSkip(Stripped(lines[i])),
                               StartsWith(Stripped(lines[i]), ReceberSignature)),
                      lines, i + 1)

RECURSIVE SplitOn(_, _)
\* The fields of a line between the separators c.
SplitOn(s, c) ==
    IF Contains(s, c) THEN <<BeforeFirst(s, c)>> \o SplitOn(AfterFirst(s, c), c) ELSE <<s>>

\* The label pd.read_csv gives the j-th column: the field of the first line,
\* "Unnamed: <j-1>" for an empty field.
CsvLabel(field, j) == IF field = <<>> THEN <<"U", "n", "n", "a", "m", "e", "d", ":", " ">> \o NatDigits(j - 1) ELSE field

\* pd.read_csv(io.StringIO(cleaned), sep=";", engine="python") for lines
\* without quotes, none with more fields than the first, and cells that are
\* no numbers in point notation: the first line gives the labels, every
\* other line a row; an empty or missing field is NaN.
ReadCsvSemicolon(cleaned) ==
    LET lines == SplitLines(cleaned)
        labels == SplitOn(lines[1], ";")
    IN  [columns |-> [j \in 1..Len(labels) |-> CsvLabel(labels[j], j)],
         rows |-> [i \in 1..(Len(lines) - 1) |->
                     [j \in 1..Len(labels) |->
                         LET fields == SplitOn(lines[i + 1], ";")
                         IN  IF j <= Len(fields) /\ fields[j] # <<>> THEN Str(fields[j]) ELSE NaN]]]

\* df.columns = [col.strip() for col in df.columns]
StripColumns(df) == [df EXCEPT !.columns = [j \in 1..Len(df.columns) |-> Strip(df.columns[j])]]

\* df.dropna(how="all")
DropNaRows(df) ==
    [df EXCEPT !.rows = SelectSeq(df.rows, LAMBDA row : \E j \in 1..Len(row) : row[j] # NaN)]

PagarMoneyCols ==
    <<<<"V", "a", "l", "o", "r">>,
      <<"V", "a", "l", "o", "r", " ", "P", "I", "S">>,
      <<"V", "a", "l", "o", "r", " ", "C", "O", "F", "I", "N", "S">>,
      <<"V", "a", "l", "o", "r", " ", "C", "S", "L", "L">>,
      <<"V", "a", "l", "o", "r", " ", "I", "R", "R", "F">>,
      <<"V", "a", "l", "o", "r", " ", "I", "S", "S">>,
      <<"V", "a", "l", "o", "r", " ", "I", "N", "S", "S">>>>

PagarDateCols ==
    <<<<"P", "a", "g", "a", "m", "e", "n", "t", "o">>,
      <<"E", "m", "i", "s", "s", "a", "o">>,
      <<"V", "e", "n", "c", "i", "m", "e", "n", "t", "o">>,
      <<"D", "t", ".", " ", "C", "o", "n", "c", "i", "l", "i", "a", "ç", "ã", "o">>>>

ReceberMoneyCols ==
    <<<<"V", "a", "l", "o", "r">>,
      <<"V", "a", "l", "o", "r", " ", "P", "P", "C", "N", "G">>,
      <<"V", "a", "l", "o", "r", " ", "P", "I", "S">>,
      <<"V", "a", "l", "o", "r", " ", "C", "O", "F", "I", "N", "S">>,
      <<"V", "a", "l", "o", "r", " ", "C", "S", "L", "L">>,
      <<"V", "a", "l", "o", "r", " ", "I", "R", "R", "F">>,
      <<"V", "a", "l", "o", "r", " ", "I", "S", "S">>,
      <<"V", "a", "l", "o", "r", " ", "I", "N", "S", "S">>>>

ReceberDateCols ==
    <<<<"E", "m", "i", "s", "s", "ã", "o">>,
      <<"V", "e", "n", "c", "t", "o">>,
      <<"P", "a", "g", "t", "o">>,
      <<"P", "a", "g", "a", "m", "e", "n", "t", "o", " ", "d", "o", " ", "B", "o", "l", "e", "t", "o">>>>

Parcela == <<"P", "a", "r", "c", "e", "l", "a">>

RECURSIVE StripChars(_, _)
\* s.strip(c)
StripChars(s, c) ==
    IF s # <<>> /\ Head(s) = c THEN StripChars(Tail(s), c)
    ELSE IF s # <<>> /\ s[Len(s)] = c THEN StripChars(SubSeq(s, 1, Len(s) - 1), c)
    ELSE s

\* df["Parcela"] = df["Parcela"].astype(str).str.strip("'").str.strip()
StripParcela(df) ==
    IF Contains(df.columns, Parcela)
    THEN SetColumn(df, Parcela,
                   [i \in 1..Len(df.rows) |-> Str(Strip(StripChars(AsStr(Column(df, Parcela).cells[i]), "'")))])
    ELSE df

\* The money and the date columns of the table converted (main.py 180-196,
\* 237-258).
ConvertColumns(df, money_cols, date_cols) ==
    _parse_dates(ConvertMoneyCols(df, Present(df, money_cols)), Present(df, date_cols))

\* The table read from the kept lines (main.py 173-179, 230-236).
CleanedFrame(cleaned) ==
    _strip_object_columns(DropNaRows(StripColumns(ReadCsvSemicolon(cleaned))))

\* cleaned = "\n".join(output_lines)
PagarCleaned(text) == JoinLines(PagarLines(CleanStart, SplitLines(text), 1))

ReceberCleaned(text) == JoinLines(ReceberLines(CleanStart, SplitLines(text), 1))

read_contas_pagar_from_text(text) ==
    IF PagarCleaned(text) = <<>> THEN [columns |-> <<>>, rows |-> <<>>]
    ELSE StripParcela(ConvertColumns(CleanedFrame(PagarCleaned(text)), PagarMoneyCols, PagarDateCols))

read_contas_receber_from_text(text) ==
    IF ReceberCleaned(text) = <<>> THEN [columns |-> <<>>, rows |-> <<>>]
    ELSE ConvertColumns(CleanedFrame(ReceberCleaned(text)), ReceberMoneyCols, ReceberDateCols)

(***************************************************************************)
(* Accounts reports: up to MaxAccountsLines lines for one of the two       *)
(* parsers, each a header line, a banner line, a blank line or a data line *)
(* with as many fields as the header.  line is the text of the line as it  *)
(* is kept: without a byte order mark in front.                            *)
(***************************************************************************)
MaxAccountsLines == 3

AccountsLine(kind, text, line) == [kind |-> kind, text |-> text, line |-> line]

PagarLineOptions ==
    {AccountsLine("header", <<"C", "o", "d", "i", "g", "o", ";", "P", "a", "g", "a", "m", "e", "n", "t", "o", ";", "C", "l", "a", "s", "s", "e", " ", "F", "i", "n", "a", "n", "c", "e", "i", "r", "a", ";", "P", "a", "r", "c", "e", "l", "a", ";", "V", "a", "l", "o", "r">>, <<"C", "o", "d", "i", "g", "o", ";", "P", "a", "g", "a", "m", "e", "n", "t", "o", ";", "C", "l", "a", "s", "s", "e", " ", "F", "i", "n", "a", "n", "c", "e", "i", "r", "a", ";", "P", "a", "r", "c", "e", "l", "a", ";", "V", "a", "l", "o", "r">>),
     AccountsLine("header", <<BOM>> \o <<" ", "C", "o", "d", "i", "g", "o", ";", "P", "a", "g", "a", "m", "e", "n", "t", "o", ";", "C", "l", "a", "s", "s", "e", " ", "F", "i", "n", "a", "n", "c", "e", "i", "r", "a", ";", "P", "a", "r", "c", "e", "l", "a", ";", "V", "a", "l", "o", "r">>, <<" ", "C", "o", "d", "i", "g", "o", ";", "P", "a", "g", "a", "m", "e", "n", "t", "o", ";", "C", "l", "a", "s", "s", "e", " ", "F", "i", "n", "a", "n", "c", "e", "i", "r", "a", ";", "P", "a", "r", "c", "e", "l", "a", ";", "V", "a", "l", "o", "r">>),
     AccountsLine("banner", <<"R", "e", "l", "a", "t", "ó", "r", "i", "o", " ", "d", "e", " ", "C", "o", "n", "t", "a", "s", " ", "P", "a", "g", "a", "s", " ", "-", " ", "2", "0", "2", "4">>, <<"R", "e", "l", "a", "t", "ó", "r", "i", "o", " ", "d", "e", " ", "C", "o", "n", "t", "a", "s", " ", "P", "a", "g", "a", "s", " ", "-", " ", "2", "0", "2", "4">>),
     AccountsLine("banner", <<" ", "P", "e", "r", "í", "o", "d", "o", " ", "I", "n", "i", "c", "i", "a", "l", ":", " ", "0", "1", "/", "0", "1", "/", "2", "0", "2", "4">>, <<" ", "P", "e", "r", "í", "o", "d", "o", " ", "I", "n", "i", "c", "i", "a", "l", ":", " ", "0", "1", "/", "0", "1", "/", "2", "0", "2", "4">>),
     AccountsLine("blank", <<" ">>, <<" ">>),
     AccountsLine("data", <<"A", "7", ";", "1", "5", "/", "0", "1", "/", "2", "0", "2", "4", ";", "V", "e", "n", "d", "a", "s", ";", "'", "1", "/", "2", "'", ";", "1", ".", "2", "3", "4", ",", "5", "6">>, <<"A", "7", ";", "1", "5", "/", "0", "1", "/", "2", "0", "2", "4", ";", "V", "e", "n", "d", "a", "s", ";", "'", "1", "/", "2", "'", ";", "1", ".", "2", "3", "4", ",", "5", "6">>),
     AccountsLine("data", <<"A", "8", ";", ";", "T", "a", "x", "a", "s", ";", " ", "2", "/", "2", " ", ";", "a", "b", "c">>, <<"A", "8", ";", ";", "T", "a", "x", "a", "s", ";", " ", "2", "/", "2", " ", ";", "a", "b", "c">>),
     AccountsLine("data", <<";", ";", ";", ";">>, <<";", ";", ";", ";">>)}

ReceberLineOptions ==
    {AccountsLine("header", <<"C", "o", "d", "i", "g", "o", " ", "I", "n", "t", "e", "r", "n", "o", ";", "P", "a", "g", "t", "o", ";", "V", "a", "l", "o", "r">>, <<"C", "o", "d", "i", "g", "o", " ", "I", "n", "t", "e", "r", "n", "o", ";", "P", "a", "g", "t", "o", ";", "V", "a", "l", "o", "r">>),
     AccountsLine("banner", <<"R", "e", "l", "a", "t", "ó", "r", "i", "o", " ", "R", "e", "c", "e", "b", "e", "r", " ", "R", "e", "c", "e", "b", "i", "d", "o">>, <<"R", "e", "l", "a", "t", "ó", "r", "i", "o", " ", "R", "e", "c", "e", "b", "e", "r", " ", "R", "e", "c", "e", "b", "i", "d", "o">>),
     AccountsLine("banner", <<"0", "1", "/", "0", "1", "/", "2", "0", "2", "4", " ", "a", " ", "3", "1", "/", "0", "1", "/", "2", "0", "2", "4", ";">>, <<"0", "1", "/", "0", "1", "/", "2", "0", "2", "4", " ", "a", " ", "3", "1", "/", "0", "1", "/", "2", "0", "2", "4", ";">>),
     AccountsLine("banner", <<"T", "i", "p", "o", ":", " ", "B", "o", "l", "e", "t", "o">>, <<"T", "i", "p", "o", ":", " ", "B", "o", "l", "e", "t", "o">>),
     AccountsLine("banner", <<"*", "*", " ", "S", "u", "b", "t", "o", "t", "a", "l", ";", ";", "1", "0", ",", "0", "0">>, <<"*", "*", " ", "S", "u", "b", "t", "o", "t", "a", "l", ";", ";", "1", "0", ",", "0", "0">>),
     AccountsLine("banner", <<BOM>> \o <<"*", "*", " ", "P", "a", "g", "a", "m", "e", "n", "t", "o">>, <<"*", "*", " ", "P", "a", "g", "a", "m", "e", "n", "t", "o">>),
     AccountsLine("blank", <<>>, <<>>),
     AccountsLine("data", <<"B", "1", ";", "1", "5", "/", "0", "1", "/", "2", "0", "2", "4", ";", "1", "0", ",", "0", "0">>, <<"B", "1", ";", "1", "5", "/", "0", "1", "/", "2", "0", "2", "4", ";", "1", "0", ",", "0", "0">>),
     AccountsLine("data", <<"B", "2", ";", "a", "b", "c", ";">>, <<"B", "2", ";", "a", "b", "c", ";">>)}

AccountsGivens ==
    [parser : {"contas_pagar"}, lines : SeqsUpTo(PagarLineOptions, MaxAccountsLines)]
        \cup [parser : {"contas_receber"}, lines : SeqsUpTo(ReceberLineOptions, MaxAccountsLines)]

InitCr ==
    /\ cr_given \in AccountsGivens
    /\ cr_text = JoinLines([i \in 1..Len(cr_given.lines) |-> cr_given.lines[i].text])
    /\ cr_pc = "input"
    /\ cr_lines = <<>>
    /\ cr_frame = [columns |-> <<>>, rows |-> <<>>]
    /\ MatchIdle
    /\ OfxIdle
    /\ DateIdle
    /\ KindIdle
    /\ CanonIdle
    /\ MoneyIdle
    /\ CleanIdle
    /\ FrIdle
    /\ GrpIdle
    /\ LoadIdle

\* load_dataset reads an upload of the kind contas_pagar.
ReadContasPagar ==
    /\ cr_pc = "input"
    /\ cr_given.parser = "contas_pagar"
    /\ cr_lines' = PagarLines(CleanStart, SplitLines(cr_text), 1)
    /\ cr_frame' = read_contas_pagar_from_text(cr_text)
    /\ cr_pc' = "read"
    /\ UNCHANGED <<cr_given, cr_text, not_cr_vars>>

\* load_dataset reads an upload of the kind contas_receber.
ReadContasReceber ==
    /\ cr_pc = "input"
    /\ cr_given.parser = "contas_receber"
    /\ cr_lines' = ReceberLines(CleanStart, SplitLines(cr_text), 1)
    /\ cr_frame' = read_contas_receber_from_text(cr_text)
    /\ cr_pc' = "read"
    /\ UNCHANGED <<cr_given, cr_text, not_cr_vars>>

NextCr == ReadContasPagar \/ ReadContasReceber

SpecCr == InitCr /\ [][NextCr]_vars

\* The header signature of the parser that was given the report.
SignatureGiven == IF cr_given.parser = "contas_pagar" THEN PagarSignature ELSE ReceberSignature

\* The line at position i is to be kept: a data line, or the first header line.
KeptGiven(i) ==
    \/ cr_given.lines[i].kind = "data"
    \/ /\ cr_given.lines[i].kind = "header"
       /\ \A j \in 1..(i - 1) : cr_given.lines[j].kind # "header"

\* The lines to be kept, in the order of the report.
ExpectedLines ==
    LET kept == SelectSeq([i \in 1..Len(cr_given.lines) |-> i], KeptGiven)
    IN  [n \in 1..Len(kept) |-> cr_given.lines[kept[n]].line]

\* C23: the kept lines are the first header line and every line that is no
\* blank, banner or header line, each once and in the order of the report;
\* so at most one kept line starts with the header signature.
C23_RepeatedHeaderDropped ==
    cr_pc = "read" =>
        /\ cr_lines = ExpectedLines
        /\ Cardinality({n \in 1..Len(cr_lines) : StartsWith(Strip(cr_lines[n]), SignatureGiven)}) <= 1

\* Two pages of an accounts-payable report: a header, a data line, the header again.
C23_Witness ==
    /\ cr_pc = "read"
    /\ cr_given.parser = "contas_pagar"
    /\ Len(cr_given.lines) = 3
    /\ cr_given.lines[1].kind = "header"
    /\ cr_given.lines[2].kind = "data"
    /\ cr_given.lines[3].kind = "header"
    /\ Len(cr_lines) = 2
    /\ StartsWith(Strip(cr_lines[1]), PagarSignature)

\* The same for an accounts-receivable report, a banner between the pages.
C23_ReceberWitness ==
    /\ cr_pc = "read"
    /\ cr_given.parser = "contas_receber"
    /\ Len(cr_given.lines) = 3
    /\ cr_given.lines[1].kind = "header"
    /\ cr_given.lines[2].kind = "banner"
    /\ cr_given.lines[3].kind = "header"
    /\ Len(cr_lines) = 1

\* C24: a report without a header line gives a table of no rows.
C24_NoHeaderEmptyTable ==
    (cr_pc = "read" /\ \A i \in 1..Len(cr_given.lines) : cr_given.lines[i].kind # "header") =>
        cr_frame.rows = <<>>

(***************************************************************************)
(* group_totals (odontotech.py 223-238).  The result is [k |-> "table",    *)
(* columns, rows] or [k |-> "error", type]: the exception raised.          *)
(***************************************************************************)
Raised(type) == [k |-> "error", type |-> type]

\* a + b on exact decimals.
Add(a, b) ==
    LET e == Max(a.e, b.e)
    IN  Norm(a.m * Pow10(e - a.e) + b.m * Pow10(e - b.e), e)

RECURSIVE SumCells(_)
\* The aggregation "sum" of a group: the cells that are not null added up.
SumCells(cells) ==
    IF cells = <<>> THEN Zero
    ELSE IF IsNum(Head(cells)) THEN Add(Head(cells), SumCells(Tail(cells)))
    ELSE SumCells(Tail(cells))

\* The values of a row in the columns cols.
KeyOf(df, row, cols) == [c \in 1..Len(cols) |-> row[IndexIn(df.columns, cols[c])]]

\* Ascending order of one group column, nulls last.
CellLess(a, b) ==
    IF a.k = "str" /\ b.k = "str" THEN StrLess(a.s, b.s)
    ELSE IF IsTs(a) /\ IsTs(b) THEN TupleLess(TsTuple(a), TsTuple(b))
    ELSE a.k \in {"str", "ts"} /\ b.k \notin {"str", "ts"}

RECURSIVE KeyLess(_, _)
\* The order of sort_values(cols) on the group keys.
KeyLess(a, b) ==
    IF a = <<>> THEN FALSE
    ELSE IF Head(a) = Head(b) THEN KeyLess(Tail(a), Tail(b))
    ELSE CellLess(Head(a), Head(b))

RECURSIVE SortKeys(_)
\* The keys of a set in ascending order.
SortKeys(keys) ==
    IF keys = {} THEN <<>>
    ELSE LET least == CHOOSE a \in keys : \A b \in keys : ~KeyLess(b, a)
         IN  <<least>> \o SortKeys(keys \ {least})

qtd == <<"q", "t", "d">>

total == <<"t", "o", "t", "a", "l">>

\* The aggregation with dropna=True: no group for a key holding a null.
GroupAgg_DropNa(df, cols, value_col) ==
    LET keys == SortKeys({key \in {KeyOf(df, df.rows[i], cols) : i \in 1..Len(df.rows)} :
                             \A c \in 1..Len(key) : key[c].k \in {"str", "ts"}})
    IN  [k |-> "table",
         columns |-> cols \o <<qtd, total>>,
         rows |-> [g \in 1..Len(keys) |->
                     LET members == SelectSeq(df.rows, LAMBDA row : KeyOf(df, row, cols) = keys[g])
                     IN  keys[g] \o <<Norm(Len(members), 0),
                                      SumCells([i \in 1..Len(members) |->
                                                   members[i][IndexIn(df.columns, value_col)]])>>]]

\* df.groupby(cols, dropna=False).agg(qtd=(value_col, "size"),
\* total=(value_col, "sum")).reset_index().sort_values(cols)
GroupAgg(df, cols, value_col) ==
    LET keys == SortKeys({KeyOf(df, df.rows[i], cols) : i \in 1..Len(df.rows)})
    IN  [k |-> "table",
         columns |-> cols \o <<qtd, total>>,
         rows |-> [g \in 1..Len(keys) |->
                     LET members == SelectSeq(df.rows, LAMBDA row : KeyOf(df, row, cols) = keys[g])
                     IN  keys[g] \o <<Norm(Len(members), 0),
                                      SumCells([i \in 1..Len(members) |->
                                                   members[i][IndexIn(df.columns, value_col)]])>>]]

group_totals(df, by, value_col) ==
    IF SelectSeq(by, LAMBDA c : Contains(df.columns, c)) = <<>> THEN Raised("ValueError")
    ELSE IF ~Contains(df.columns, value_col) THEN Raised("KeyError")
    ELSE GroupAgg(df, SelectSeq(by, LAMBDA c : Contains(df.columns, c)), value_col)

(***************************************************************************)
(* Tables given to group_totals: up to MaxGroupRows rows of a class, a     *)
(* payment date and an amount, each of them possibly null, with or without *)
(* the amount column; by-columns that exist, do not exist, or both.        *)
(***************************************************************************)
MaxGroupRows == 3

CLASSE == <<"C", "L", "A", "S", "S", "E">>

NoSuchColumn == <<"N", "o", "S", "u", "c", "h", "C", "o", "l", "u", "m", "n">>

ClasseOptions == {Str(<<"A">>), NaN}

GroupPagtoOptions == {Day1, NaT}

GroupValorOptions == {Norm(150, 2), Norm(225, 2), NaN}

ByOptions == {<<>>, <<NoSuchColumn>>, <<CLASSE>>, <<NoSuchColumn, CLASSE>>, <<Pagto, CLASSE>>, <<CLASSE, Pagto>>}

GroupRows == [classe : ClasseOptions, pagto : GroupPagtoOptions, valor : GroupValorOptions]

\* The table of the rows, with the amount column or without it.
GroupTable(rows, with_valor) ==
    IF with_valor
    THEN [columns |-> <<CLASSE, Pagto, Valor>>,
          rows |-> [i \in 1..Len(rows) |-> <<rows[i].classe, rows[i].pagto, rows[i].valor>>]]
    ELSE [columns |-> <<CLASSE, Pagto>>,
          rows |-> [i \in 1..Len(rows) |-> <<rows[i].classe, rows[i].pagto>>]]

InitGrp ==
    /\ grp_df \in {GroupTable(rows, with_valor) : rows \in SeqsUpTo(GroupRows, MaxGroupRows), with_valor \in BOOLEAN}
    /\ grp_by \in ByOptions
    /\ grp_pc = "input"
    /\ grp_result = None
    /\ MatchIdle
    /\ OfxIdle
    /\ DateIdle
    /\ KindIdle
    /\ CanonIdle
    /\ MoneyIdle
    /\ CleanIdle
    /\ FrIdle
    /\ CrIdle
    /\ LoadIdle

\* A page of the app asks for the totals of the table by the columns.
GroupTotals ==
    /\ grp_pc = "input"
    /\ grp_result' = group_totals(grp_df, grp_by, Valor)
    /\ grp_pc' = "done"
    /\ UNCHANGED <<grp_df, grp_by, not_grp_vars>>

NextGrp == GroupTotals

SpecGrp == InitGrp /\ [][NextGrp]_vars

\* The requested by-columns that the table has, in the requested order.
ExistingBy == SelectSeq(grp_by, LAMBDA c : c \in {grp_df.columns[j] : j \in 1..Len(grp_df.columns)})

\* The by-columns of the returned table: its columns but the last two.
ResultBy == SubSeq(grp_result.columns, 1, Len(grp_result.columns) - 2)

\* C25: group_totals fails exactly when none of the requested by-columns
\* exists in the table; otherwise it returns a table grouped by the existing
\* requested columns, in the requested order.
C25_InvalidGrouping ==
    grp_pc = "done" =>
        /\ grp_result.k = "error" <=> ExistingBy = <<>>
        /\ grp_result.k = "table" => ResultBy = ExistingBy

\* The values of row i of the table in the columns of the result.
GivenKey(i) == [c \in 1..Len(ExistingBy) |-> grp_df.rows[i][IndexIn(grp_df.columns, ExistingBy[c])]]

\* The rows of the table that have the key of row g of the result.
Members(g) == {i \in 1..Len(grp_df.rows) : GivenKey(i) = SubSeq(grp_result.rows[g], 1, Len(ExistingBy))}

\* The amounts of the rows of a set added up, in hundredths: each row has
\* 1.50, 2.25 or no amount.
Hundredths(set) ==
    150 * Cardinality({i \in set : grp_df.rows[i][3] = Norm(150, 2)})
        + 225 * Cardinality({i \in set : grp_df.rows[i][3] = Norm(225, 2)})

RECURSIVE SumOver(_, _)
\* The numbers of column j of the rows added up.
SumOver(rows, j) == IF rows = <<>> THEN Zero ELSE Add(Head(rows)[j], SumOver(Tail(rows), j))

\* C26: the returned table has one row for every tuple of by-values of the
\* table, null values included, and no two rows for one tuple; qtd is the
\* number of rows with the tuple and total the sum of their amounts; so the
\* counts add up to the number of rows and the totals to the sum of the
\* amounts.
C26_GroupAggregation ==
    (grp_pc = "done" /\ grp_result.k = "table") =>
        LET n == Len(ExistingBy)
            groups == 1..Len(grp_result.rows)
        IN  /\ \A i \in 1..Len(grp_df.rows) : \E g \in groups : i \in Members(g)
            /\ \A g \in groups : Members(g) # {}
            /\ \A g, h \in groups : g # h => Members(g) \cap Members(h) = {}
            /\ \A g \in groups :
                   /\ grp_result.rows[g][n + 1] = Norm(Cardinality(Members(g)), 0)
                   /\ grp_result.rows[g][n + 2] = Norm(Hundredths(Members(g)), 2)
            /\ SumOver(grp_result.rows, n + 1) = Norm(Len(grp_df.rows), 0)
            /\ SumOver(grp_result.rows, n + 2) = Norm(Hundredths(1..Len(grp_df.rows)), 2)

\* Three rows, two of them without a class, grouped by the class: the rows
\* without a class make one group of two.
C26_Witness ==
    /\ grp_pc = "done"
    /\ grp_result.k = "table"
    /\ grp_by = <<CLASSE>>
    /\ Len(grp_df.rows) = 3
    /\ grp_df.rows[1][1] = NaN /\ grp_df.rows[2][1] = Str(<<"A">>) /\ grp_df.rows[3][1] = NaN
    /\ grp_df.rows[1][3] = Norm(150, 2) /\ grp_df.rows[3][3] = Norm(225, 2)
    /\ Len(grp_result.rows) = 2
    /\ grp_result.rows[2] = <<NaN, Norm(2, 0), Norm(375, 2)>>

(***************************************************************************)
(* read_odontotech_csv (odontotech.py 123-175) and load_dataset (main.py   *)
(* 262-275).  pd.read_csv with engine="python" is modelled for lines       *)
(* without quotes, none with more fields than the first line read.         *)
(***************************************************************************)
\* The delimiters csv.Sniffer prefers, in its order.
Preferred == <<",", "\t", ";", " ", ":">>

\* csv.Sniffer().sniff(line).delimiter for one line without quotes that
\* holds one of the preferred delimiters: the first of them in the line.
Sniff(line) == Preferred[CHOOSE p \in 1..Len(Preferred) :
                            /\ Contains(line, Preferred[p])
                            /\ \A q \in 1..(p - 1) : ~Contains(line, Preferred[q])]

\* The type pandas gives a column read from text: numbers when every cell
\* that is not empty is a number, text otherwise.
InferColumns(df) ==
    LET numeric == {j \in 1..Len(df.columns) :
                       \A i \in 1..Len(df.rows) :
                           df.rows[i][j] = NaN \/ ParseFloat(df.rows[i][j].s) # NaN}
    IN  [df EXCEPT !.rows = [i \in 1..Len(df.rows) |->
            [j \in 1..Len(df.columns) |->
                IF j \in numeric /\ df.rows[i][j] # NaN THEN ParseFloat(df.rows[i][j].s)
                ELSE df.rows[i][j]]]]

\* The table of the lines: the first gives the labels, every other line
\* that is not empty a row; an empty or missing field is NaN.
CsvTable(lines, sep) ==
    LET labels == SplitOn(lines[1], sep)
        data == SelectSeq(Tail(lines), LAMBDA l : l # <<>>)
    IN  InferColumns([k |-> "table",
                      columns |-> [j \in 1..Len(labels) |-> CsvLabel(labels[j], j)],
                      rows |-> [i \in 1..Len(data) |->
                                  [j \in 1..Len(labels) |->
                                      LET fields == SplitOn(data[i], sep)
                                      IN  IF j <= Len(fields) /\ fields[j] # <<>> THEN Str(fields[j]) ELSE NaN]]])

\* lines[n:]
Drop(lines, n) == SubSeq(lines, n + 1, Len(lines))

\* pd.read_csv(io.StringIO(text), skiprows=n, sep=None, engine="python"):
\* the delimiter is sniffed from the first line that is not skipped, and an
\* error is raised when there is no such line or it is empty.
ReadCsvSniffed(text, n) ==
    IF Drop(SplitLines(text), n) = <<>> \/ Drop(SplitLines(text), n)[1] = <<>> THEN Raised("Error")
    ELSE CsvTable(Drop(SplitLines(text), n), Sniff(Drop(SplitLines(text), n)[1]))

\* pd.read_csv(io.StringIO(text), skiprows=n, sep=sep, engine="python"):
\* empty lines are passed over, and an error is raised when no line is left.
ReadCsvSep(text, n, sep) ==
    IF SelectSeq(Drop(SplitLines(text), n), LAMBDA l : l # <<>>) = <<>> THEN Raised("EmptyDataError")
    ELSE CsvTable(SelectSeq(Drop(SplitLines(text), n), LAMBDA l : l # <<>>), sep)

\* df.dropna(axis=1, how="all")
DropNaColumns(df) ==
    LET kept == SelectSeq([j \in 1..Len(df.columns) |-> j],
                          LAMBDA j : \E i \in 1..Len(df.rows) : df.rows[i][j] # NaN)
    IN  [df EXCEPT !.columns = [n \in 1..Len(kept) |-> df.columns[kept[n]]],
                   !.rows = [i \in 1..Len(df.rows) |-> [n \in 1..Len(kept) |-> df.rows[i][kept[n]]]]]

\* The encodings tried in turn (odontotech.py 149).
Encodings == <<<<"u", "t", "f", "-", "8", "-", "s", "i", "g">>, <<"u", "t", "f", "-", "8">>, <<"l", "a", "t", "i", "n", "1">>, <<"c", "p", "1", "2", "5", "2">>>>

\* The separators of the last resort (odontotech.py 162).
LastResortSeps == <<";", "\t", ",">>

SkippedHeaderLines == 3

\* return df, stats, after the empty columns and rows are dropped
\* (odontotech.py 173-175).
Return(df, encoding, sep) ==
    [k |-> "ok",
     df |-> DropNaRows(DropNaColumns(df)),
     stats |-> [encoding |-> encoding, sep |-> sep, skipped_header_lines |-> SkippedHeaderLines]]

RECURSIVE TrySeps(_, _)
\* The loop over the separators from seps on (odontotech.py 162-171); when
\* none gives a table, ValueError is raised.
TrySeps(content, seps) ==
    IF seps = <<>> THEN Raised("ValueError")
    ELSE IF ReadCsvSep(content, SkippedHeaderLines, Head(seps)).k = "error" THEN TrySeps(content, Tail(seps))
    ELSE Return(ReadCsvSep(content, SkippedHeaderLines, Head(seps)), <<"u", "t", "f", "-", "8", "?">>, Str(<<Head(seps)>>))

RECURSIVE TryEncodings(_, _)
\* The loop over the encodings from encs on (odontotech.py 149-158).  The
\* buffer is UTF-8 text, so no decoding fails, and the lines of the text
\* are the same under each encoding.
TryEncodings(content, encs) ==
    IF encs = <<>> THEN TrySeps(content, LastResortSeps)
    ELSE IF ReadCsvSniffed(content, SkippedHeaderLines).k = "error" THEN TryEncodings(content, Tail(encs))
    ELSE Return(ReadCsvSniffed(content, SkippedHeaderLines), Head(encs), None)

read_odontotech_csv(content) == TryEncodings(content, Encodings)

\* DataPreview(name, kind, df)
DataPreview(name, kind, df) == [k |-> "preview", name |-> name, kind |-> kind, df |-> df]

\* The rest of load_dataset once the kind is known (main.py 265-275); an
\* error of pd.read_csv is not caught.
LoadKind(name, text, kind) ==
    IF kind = "ofx" THEN DataPreview(name, kind, read_ofx_transactions(text))
    ELSE IF kind = "francesinha" THEN DataPreview(name, kind, read_francesinha_from_text(text))
    ELSE IF kind = "contas_pagar" THEN DataPreview(name, kind, read_contas_pagar_from_text(text))
    ELSE IF kind = "contas_receber" THEN DataPreview(name, kind, read_contas_receber_from_text(text))
    ELSE IF ReadCsvSniffed(text, 0).k = "error" THEN ReadCsvSniffed(text, 0)
    ELSE DataPreview(name, kind, ReadCsvSniffed(text, 0))

\* The buffer is UTF-8 text: _decode_bytes gives that text.
load_dataset(name, data) == LoadKind(name, data, detect_kind(name, data))

(***************************************************************************)
(* Uploads: a file name and a buffer of up to MaxUploadLines lines, each a *)
(* line of labels, a line of data, an empty line or the banner of an       *)
(* accounts-payable report.                                                *)
(***************************************************************************)
MaxUploadLines == 5

UploadNames == {<<"d", "a", "d", "o", "s", ".", "c", "s", "v">>, <<"E", "X", "T", "R", "A", "T", "O", ".", "O", "F", "X">>}

UploadLineOptions ==
    {<<"D", "o", "c", ";", "V", "a", "l", "o", "r">>, <<"A", "1", ";", "1", ",", "5", "0">>, <<>>, ContasPagasBanner}

InitLoad ==
    /\ ld_name \in UploadNames
    /\ ld_data \in {JoinLines(lines) : lines \in SeqsUpTo(UploadLineOptions, MaxUploadLines)}
    /\ raw_pc = "input"
    /\ raw_result = None
    /\ ld_pc = "input"
    /\ ld_result = None
    /\ MatchIdle
    /\ OfxIdle
    /\ DateIdle
    /\ KindIdle
    /\ CanonIdle
    /\ MoneyIdle
    /\ CleanIdle
    /\ FrIdle
    /\ CrIdle
    /\ GrpIdle

\* The ledger page reads the upload (app.py 60).
ReadOdontotechCsv ==
    /\ raw_pc = "input"
    /\ raw_result' = read_odontotech_csv(ld_data)
    /\ raw_pc' = "done"
    /\ UNCHANGED <<ld_name, ld_data, ld_pc, ld_result, not_load_vars>>

\* The conciliation page loads the upload (main.py 278-280).
LoadDataset ==
    /\ ld_pc = "input"
    /\ ld_result' = load_dataset(ld_name, ld_data)
    /\ ld_pc' = "done"
    /\ UNCHANGED <<ld_name, ld_data, raw_pc, raw_result, not_load_vars>>

NextLoad == ReadOdontotechCsv \/ LoadDataset

SpecLoad == InitLoad /\ [][NextLoad]_vars

\* C27: reading an upload raises no error: read_odontotech_csv and
\* load_dataset return a table for every buffer and file name.
C27_NoHardError ==
    /\ raw_pc = "done" => raw_result.k # "error"
    /\ ld_pc = "done" => ld_result.k # "error"

====
